---- MODULE Spec2Model ----
(***************************************************************************)
(* yarmtl: the local task store (tasks.md), the Todoist mirror and the     *)
(* reconciliation engine (TodoistSync) that keeps them in step, together   *)
(* with the callers that start reconciliation passes (the saves of the TUI *)
(* and its manual sync key).                                               *)
(***************************************************************************)
EXTENDS Integers, Sequences, FiniteSets, TLC

\* ---------------------------------------------------------------- bounds
\* number of reconciliation passes one behaviour may start
MaxPasses == 2
\* number of events from outside the engine in one behaviour: edits by the
\* user (in the TUI, in Todoist), remote calls that answer with an error and
\* stops of the process in the middle of a pass
MaxEvents == 1
\* the current day, as a day number
Today == 40

\* ------------------------------------------------------ program constants
\* to_markdown writes at most this many characters of the id
IdDisplayLen == 8
\* completed tasks older than this many days are never pushed
WindowDays == 30

\* ------------------------------------------------------------ Option<T>
None == <<>>
Some(v) == <<v>>
IsSome(o) == o # <<>>
Unwrap(o) == o[1]

\* ------------------------------------------------------------------ ids
\* A local id is a string over [a-f0-9-]; it is kept as its characters.
IdA == <<"a", "0", "0", "0", "0", "0", "0", "1">>
IdB == <<"b", "0", "0", "0", "0", "0", "0", "2">>
\* an id longer than the eight characters Uuid-derived ids have
IdLong == <<"c", "0", "0", "0", "0", "0", "0", "3", "-", "9">>
Digit == <<"1", "2", "3", "4", "5", "6", "7", "8", "9">>
\* Uuid::new_v4().simple().to_string()[..8]: the n-th id drawn; distinct
\* draws give distinct ids
NewUuid(n) == <<"f", "0", "0", "0", "0", "0", "0", Digit[n]>>

\* ----------------------------------------------------------- Task model
\* struct Task
MkTask(id, text, deadline, tags, reminder, completed, notes, importance) ==
  [id |-> id, text |-> text, deadline |-> deadline, tags |-> tags,
   reminder |-> reminder, completed |-> completed, notes |-> notes,
   importance |-> importance]

\* ---------------------------------------------------------------- text
\* A string (a task text, notes, a store line, a remote description) is kept
\* as the sequence of its pieces, separated by blanks.  A piece is a run of
\* plain words, or one of the tokens the parsers look for:
\*   "!" v  a date with a bang,  !2026-01-30   (v the day number)
\*   "@" v  a date with an at,   @2026-01-28
\*   "#" v  a tag,               #work
\*   "$" v  a dollar and digits, $3
\*   "//" v two slashes (v = 1 when a blank follows them, 0 when the next
\*          piece, if there is one, follows them directly)
\*   "id" v      [id:v]          (v the characters of an id)
\*   "yarmtl" v  [yarmtl:v]
\*   "["  v      other text in square brackets
\* A piece is kept as its kind k, its number n (a day, a digit, the blank
\* flag) and its characters s (an id character by character, a tag or a
\* text as a whole).
NumberKinds == {"!", "@", "$", "//"}
IdKinds == {"id", "yarmtl"}
Piece(k, v) ==
  IF k \in NumberKinds THEN [k |-> k, n |-> v, s |-> <<>>]
  ELSE IF k \in IdKinds THEN [k |-> k, n |-> 0, s |-> v]
  ELSE [k |-> k, n |-> 0, s |-> <<v>>]
\* the value of a piece
V(x) ==
  IF x.k \in NumberKinds THEN x.n
  ELSE IF x.k \in IdKinds THEN x.s ELSE x.s[1]
W(s) == Piece("w", s)
\* a string of plain words
T(s) == <<W(s)>>

HexChars == {"a", "b", "c", "d", "e", "f", "0", "1", "2", "3", "4", "5",
             "6", "7", "8", "9", "-"}
\* the id of the piece matches [a-f0-9-]+
IsHex(v) == v # <<>> /\ \A i \in 1..Len(v) : v[i] \in HexChars
\* Regex \[id:([a-f0-9-]+)\]
IsIdToken(x) == x.k = "id" /\ IsHex(x.s)
\* Regex \[yarmtl:([a-f0-9-]+)\]
IsYarmtlToken(x) == x.k = "yarmtl" /\ IsHex(x.s)
\* Regex \$([1-5])
IsImportanceToken(x) == x.k = "$" /\ x.n \in 1..5

\* the pieces of s that satisfy Test, in order
Select(s, Test(_)) == SelectSeq(s, Test)

\* Regex::find: the value of the first piece that satisfies Test
FirstValue(s, Test(_)) ==
  IF Select(s, Test) = <<>> THEN None ELSE Some(V(Select(s, Test)[1]))

\* the longest prefix of s with no piece of a kind in stop
RECURSIVE RunUntil(_, _)
RunUntil(s, stop) ==
  IF s = <<>> \/ Head(s).k \in stop THEN <<>>
  ELSE <<Head(s)>> \o RunUntil(Tail(s), stop)

\* the regex //([^...]+) matches at the head of s: s starts with "//" and
\* a character outside the stop set follows: a blank, or a piece of another
\* kind
NotesMatch(s, stop) ==
  /\ Head(s).k = "//"
  /\ \/ Head(s).n = 1
     \/ Len(s) > 1 /\ s[2].k \notin stop

\* s from the first place the regex matches on (empty when there is none)
RECURSIVE FromSlashes(_, _)
FromSlashes(s, stop) ==
  IF s = <<>> THEN <<>>
  ELSE IF NotesMatch(s, stop) THEN s ELSE FromSlashes(Tail(s), stop)

\* str::trim: a blank at the end goes
Trim(s) ==
  IF s # <<>> /\ s[Len(s)].k = "//" THEN [s EXCEPT ![Len(s)].n = 0] ELSE s

\* s followed by a blank
Blank(s) ==
  IF s # <<>> /\ s[Len(s)].k = "//" THEN [s EXCEPT ![Len(s)].n = 1] ELSE s

\* the capture of //([^...]+) in s, trimmed: what follows the first matching
\* "//" up to the first character of a stop kind; None when the regex does
\* not match
NotesCapture(s, stop) ==
  IF FromSlashes(s, stop) = <<>> THEN None
  ELSE Some(Trim(RunUntil(Tail(FromSlashes(s, stop)), stop)))

\* str::trim_start_matches("//"): the slashes at the start of s go; adjacent
\* tells whether s follows the slashes before it directly
RECURSIVE StripSlashes(_, _)
StripSlashes(s, adjacent) ==
  IF adjacent /\ s # <<>> /\ Head(s).k = "//"
  THEN StripSlashes(Tail(s), Head(s).n = 0)
  ELSE s

\* the notes of a typed input or a store line: the whole match of the notes
\* regex with the slashes at its start taken off, trimmed
LineNotes(input, stop) ==
  LET from == FromSlashes(input, stop)
  IN IF from = <<>> THEN None
     ELSE Some(Trim(StripSlashes(RunUntil(Tail(from), stop),
                                 Head(from).n = 0)))

\* the kinds whose first character ends the notes of a store line ([^!@#$])
LineNotesStop == {"!", "@", "#", "$"}
\* the kinds whose first character ends the notes of a remote description
\* ([^$@!\[])
SidebandNotesStop == {"$", "@", "!", "[", "id", "yarmtl"}

\* Task::to_markdown: the store line of a task: the checkbox, the text, the
\* id cut to IdDisplayLen characters, then deadline, tags, reminder, notes
\* and importance, each after a blank; the notes follow their "//" directly
to_markdown(t) ==
  [completed |-> t.completed,
   toks |->
     Blank(t.text)
     \o <<Piece("id", IF Len(t.id) > IdDisplayLen
                      THEN SubSeq(t.id, 1, IdDisplayLen) ELSE t.id)>>
     \o (IF IsSome(t.deadline) THEN <<Piece("!", Unwrap(t.deadline))>>
         ELSE <<>>)
     \o [i \in 1..Len(t.tags) |-> Piece("#", t.tags[i])]
     \o (IF IsSome(t.reminder) THEN <<Piece("@", Unwrap(t.reminder))>>
         ELSE <<>>)
     \o (IF ~IsSome(t.notes) THEN <<>>
         ELSE IF IsSome(t.importance)
         THEN Blank(<<Piece("//", 0)>> \o Unwrap(t.notes))
         ELSE <<Piece("//", 0)>> \o Unwrap(t.notes))
     \o (IF IsSome(t.importance) THEN <<Piece("$", Unwrap(t.importance))>>
         ELSE <<>>)]

\* Task::parse, clean_text: the dates and tags are taken out, then every
\* match of the notes regex (a "//" with what follows it up to the next
\* "$"), then the id and the importance tokens.  in_notes tells whether the
\* head of s lies in such a match.  With the dates and tags gone, a "//"
\* that had one of them right behind it has a blank behind it, or nothing.
RECURSIVE CleanText(_, _)
CleanText(s, in_notes) ==
  IF s = <<>> THEN <<>>
  ELSE LET x == Head(s)
           opens == /\ x.k = "//"
                    /\ \/ x.n = 1
                       \/ /\ Len(s) > 1
                          /\ s[2].k # "$"
                          /\ s[2].k \in {"!", "#", "@"} => Len(s) > 2
       IN IF x.k \in {"!", "#", "@"} THEN CleanText(Tail(s), in_notes)
          ELSE IF x.k = "$"
          THEN (IF IsImportanceToken(x) THEN <<>> ELSE <<x>>)
                 \o CleanText(Tail(s), FALSE)
          ELSE IF in_notes \/ opens THEN CleanText(Tail(s), TRUE)
          ELSE IF IsIdToken(x) THEN CleanText(Tail(s), FALSE)
          ELSE <<x>> \o CleanText(Tail(s), FALSE)

\* the line carries no id the parser accepts
NoId(input) == Select(input, IsIdToken) = <<>>

\* Task::parse applied to the text of a store line (the phrases of
\* extract_natural_deadline and extract_natural_reminder are left out):
\* the id token is reused when the line has one, else a new id is drawn;
\* empty notes are dropped; completed is always false.
Task_parse(input, uuid) ==
  LET IsDeadline(x) == x.k = "!"
      IsTag(x) == x.k = "#"
      IsReminder(x) == x.k = "@"
      found == LineNotes(input, LineNotesStop)
      tag_tokens == Select(input, IsTag)
  IN [id |-> IF NoId(input) THEN NewUuid(uuid)
             ELSE Unwrap(FirstValue(input, IsIdToken)),
      text |-> Trim(CleanText(input, FALSE)),
      deadline |-> FirstValue(input, IsDeadline),
      tags |-> [i \in 1..Len(tag_tokens) |-> V(tag_tokens[i])],
      reminder |-> FirstValue(input, IsReminder),
      completed |-> FALSE,
      notes |-> IF found = Some(<<>>) THEN None ELSE found,
      importance |-> FirstValue(input, IsImportanceToken)]

\* number of lines of a store that carry no id token
RECURSIVE CountNoId(_)
CountNoId(lines) ==
  IF lines = <<>> THEN 0
  ELSE (IF NoId(Head(lines).toks) THEN 1 ELSE 0) + CountNoId(Tail(lines))

\* TodoistSync::load_local_tasks / App::load_tasks: parse every checkbox
\* line, then set completed from the checkbox.  uuid is the number of ids
\* drawn so far.
RECURSIVE load_local_tasks(_, _)
load_local_tasks(lines, uuid) ==
  IF lines = <<>> THEN <<>>
  ELSE LET l == Head(lines)
           u == IF NoId(l.toks) THEN uuid + 1 ELSE uuid
       IN <<[Task_parse(l.toks, u) EXCEPT !.completed = l.completed]>>
            \o load_local_tasks(Tail(lines), u)

\* TodoistSync::save_local_tasks / App::save_tasks_with_message: one line per
\* task, in list order
RECURSIVE save_local_tasks(_)
save_local_tasks(tasks) ==
  IF tasks = <<>> THEN <<>>
  ELSE <<to_markdown(Head(tasks))>> \o save_local_tasks(Tail(tasks))

\* a fingerprint that leaves the notes out
compute_task_hash_without_notes(t) ==
  [text |-> t.text, deadline |-> t.deadline, tags |-> t.tags,
   reminder |-> t.reminder, completed |-> t.completed, notes |-> None,
   importance |-> t.importance]

\* TodoistSync::compute_task_hash: a hash of text, deadline, tags, reminder,
\* completed, notes and importance; kept as the hashed content itself
\* (DefaultHasher with its fixed keys, taken not to collide).
compute_task_hash(t) ==
  [text |-> t.text, deadline |-> t.deadline, tags |-> t.tags,
   reminder |-> t.reminder, completed |-> t.completed, notes |-> t.notes,
   importance |-> t.importance]

\* --------------------------------------------------- sideband metadata
\* an encoder that leaves the id token out
YarmtlMetadata_encode_without_id(m) ==
  (IF IsSome(m.deadline) THEN <<Piece("!", Unwrap(m.deadline))>> ELSE <<>>)
  \o (IF IsSome(m.reminder) THEN <<Piece("@", Unwrap(m.reminder))>> ELSE <<>>)
  \o (IF IsSome(m.importance) THEN <<Piece("$", Unwrap(m.importance))>>
      ELSE <<>>)
  \o (IF IsSome(m.notes) THEN Blank(<<Piece("//", 0)>> \o Unwrap(m.notes))
      ELSE <<>>)

\* YarmtlMetadata::encode: each field is followed by a blank, the notes
\* follow their "//" directly
YarmtlMetadata_encode(m) ==
  (IF IsSome(m.deadline) THEN <<Piece("!", Unwrap(m.deadline))>> ELSE <<>>)
  \o (IF IsSome(m.reminder) THEN <<Piece("@", Unwrap(m.reminder))>> ELSE <<>>)
  \o (IF IsSome(m.importance) THEN <<Piece("$", Unwrap(m.importance))>>
      ELSE <<>>)
  \o (IF IsSome(m.notes) THEN Blank(<<Piece("//", 0)>> \o Unwrap(m.notes))
      ELSE <<>>)
  \o <<Piece("yarmtl", m.id)>>

\* YarmtlMetadata::parse: None when the description has no id token
YarmtlMetadata_parse(description) ==
  LET IsDeadline(x) == x.k = "!"
      IsReminder(x) == x.k = "@"
  IN IF Select(description, IsYarmtlToken) = <<>> THEN None
     ELSE Some([id |-> Unwrap(FirstValue(description, IsYarmtlToken)),
                deadline |-> FirstValue(description, IsDeadline),
                reminder |-> FirstValue(description, IsReminder),
                notes |-> NotesCapture(description, SidebandNotesStop),
                importance |-> FirstValue(description, IsImportanceToken)])

\* TodoistSync::extract_yarmtl_metadata
extract_yarmtl_metadata(todoist_task) ==
  IF IsSome(todoist_task.description)
  THEN YarmtlMetadata_parse(Unwrap(todoist_task.description)) ELSE None

\* --------------------------------------------------- metadata store
\* task_mappings: local id -> [todoist_id, last_sync_hash]
\* SyncMetadata::get_todoist_id
get_todoist_id(metadata, yarmtl_id) ==
  IF yarmtl_id \in DOMAIN metadata
  THEN Some(metadata[yarmtl_id].todoist_id) ELSE None

\* a lookup of the stored fingerprint that finds none
get_hash_none(metadata, yarmtl_id) == None

\* SyncMetadata::get_hash
get_hash(metadata, yarmtl_id) ==
  IF yarmtl_id \in DOMAIN metadata
  THEN Some(metadata[yarmtl_id].last_sync_hash) ELSE None

\* the local ids whose entry holds todoist_id
KeysOf(metadata, todoist_id) ==
  {k \in DOMAIN metadata : metadata[k].todoist_id = todoist_id}

\* a reverse lookup that finds no entry
get_yarmtl_id_none(metadata, todoist_id) == None

\* SyncMetadata::get_yarmtl_id: reverse scan, the first entry found.  The
\* stores the model reaches hold at most one entry per remote id, so the
\* order of the scan does not show.
get_yarmtl_id(metadata, todoist_id) ==
  IF KeysOf(metadata, todoist_id) = {} THEN None
  ELSE Some(CHOOSE k \in KeysOf(metadata, todoist_id) : TRUE)

\* an insert that keeps the entry a local id already has
update_mapping_if_absent(metadata, yarmtl_id, info) ==
  [k \in DOMAIN metadata \cup {yarmtl_id} |->
     IF k \in DOMAIN metadata THEN metadata[k] ELSE info]

\* SyncMetadata::update_mapping
update_mapping(metadata, yarmtl_id, info) ==
  [k \in DOMAIN metadata \cup {yarmtl_id} |->
     IF k = yarmtl_id THEN info ELSE metadata[k]]

\* SyncMetadata::remove_mapping
remove_mapping(metadata, yarmtl_id) ==
  [k \in DOMAIN metadata \ {yarmtl_id} |-> metadata[k]]

\* struct TaskSyncInfo (last_modified is a wall-clock reading nothing reads)
TaskSyncInfo(todoist_id, hash) ==
  [todoist_id |-> todoist_id, last_sync_hash |-> hash]

\* --------------------------------------------------- remote task shape
\* struct TodoistTask (due stands for TodoistDue.date)
TodoistTask(id, content, description, due, labels, priority, is_completed, project_id) ==
  [id |-> id, content |-> content, description |-> description, due |-> due,
   labels |-> labels, priority |-> priority, is_completed |-> is_completed,
   project_id |-> project_id]

\* a table that keeps the polarity of the importance
PriorityOf_same(i) == IF i \in 1..4 THEN i ELSE 1

\* the importance -> priority table of convert_yarmtl_to_todoist
PriorityOf(i) ==
  IF i = 1 THEN 4 ELSE IF i = 2 THEN 3 ELSE IF i = 3 THEN 2 ELSE 1

\* a conversion that sends every tag as a label
convert_yarmtl_to_todoist_all_labels(projects, task) ==
  LET project_id == IF task.tags = <<>> THEN None
                    ELSE IF task.tags[1] \in DOMAIN projects
                         THEN Some(projects[task.tags[1]]) ELSE None
      labels == IF task.tags # <<>> THEN Some(task.tags) ELSE None
      priority == IF IsSome(task.importance)
                  THEN Some(PriorityOf(Unwrap(task.importance))) ELSE None
      metadata == [id |-> task.id, deadline |-> task.deadline,
                   reminder |-> task.reminder, notes |-> task.notes,
                   importance |-> task.importance]
  IN TodoistTask(None, task.text, Some(YarmtlMetadata_encode(metadata)),
                 task.deadline, labels, priority, None, project_id)

\* a conversion that sends the completion as a field of the task
convert_yarmtl_to_todoist_flagged(projects, task) ==
  LET project_id == IF task.tags = <<>> THEN None
                    ELSE IF task.tags[1] \in DOMAIN projects
                         THEN Some(projects[task.tags[1]]) ELSE None
      labels == IF Len(task.tags) > 1 THEN Some(Tail(task.tags)) ELSE None
      priority == IF IsSome(task.importance)
                  THEN Some(PriorityOf(Unwrap(task.importance))) ELSE None
      metadata == [id |-> task.id, deadline |-> task.deadline,
                   reminder |-> task.reminder, notes |-> task.notes,
                   importance |-> task.importance]
  IN TodoistTask(None, task.text, Some(YarmtlMetadata_encode(metadata)),
                 task.deadline, labels, priority, Some(task.completed),
                 project_id)

\* TodoistSync::convert_yarmtl_to_todoist; projects is the project cache
\* (name -> project id)
convert_yarmtl_to_todoist(projects, task) ==
  LET project_id == IF task.tags = <<>> THEN None
                    ELSE IF task.tags[1] \in DOMAIN projects
                         THEN Some(projects[task.tags[1]]) ELSE None
      labels == IF Len(task.tags) > 1 THEN Some(Tail(task.tags)) ELSE None
      priority == IF IsSome(task.importance)
                  THEN Some(PriorityOf(Unwrap(task.importance))) ELSE None
      metadata == [id |-> task.id, deadline |-> task.deadline,
                   reminder |-> task.reminder, notes |-> task.notes,
                   importance |-> task.importance]
  IN TodoistTask(None, task.text, Some(YarmtlMetadata_encode(metadata)),
                 task.deadline, labels, priority, None, project_id)

\* TodoistSync::convert_todoist_to_yarmtl; uuid is the number of ids drawn
\* so far
convert_todoist_to_yarmtl(projects, todoist_task, uuid) ==
  LET metadata == extract_yarmtl_metadata(todoist_task)
      id == IF IsSome(metadata) THEN Unwrap(metadata).id
            ELSE NewUuid(uuid + 1)
      deadline == IF IsSome(todoist_task.due) THEN todoist_task.due
                  ELSE IF IsSome(metadata) THEN Unwrap(metadata).deadline
                  ELSE None
      names == IF IsSome(todoist_task.project_id)
               THEN {n \in DOMAIN projects :
                       projects[n] = Unwrap(todoist_task.project_id)}
               ELSE {}
      project_tag == IF names = {} THEN <<>>
                     ELSE <<CHOOSE n \in names : TRUE>>
      label_tags == IF IsSome(todoist_task.labels)
                    THEN Unwrap(todoist_task.labels) ELSE <<>>
  IN MkTask(id, todoist_task.content, deadline, project_tag \o label_tags,
            IF IsSome(metadata) THEN Unwrap(metadata).reminder ELSE None,
            IF IsSome(todoist_task.is_completed)
            THEN Unwrap(todoist_task.is_completed) ELSE FALSE,
            IF IsSome(metadata) THEN Unwrap(metadata).notes ELSE None,
            IF IsSome(metadata) THEN Unwrap(metadata).importance ELSE None)

\* --------------------------------------------------------- SyncAction
CreateInTodoist(task) == [type |-> "CreateInTodoist", task |-> task]
CreateInYarmtl(todoist_task) ==
  [type |-> "CreateInYarmtl", task |-> todoist_task]
UpdateTodoist(yarmtl_id, task) ==
  [type |-> "UpdateTodoist", yarmtl_id |-> yarmtl_id, task |-> task]
UpdateYarmtl(todoist_id, todoist_task) ==
  [type |-> "UpdateYarmtl", todoist_id |-> todoist_id, task |-> todoist_task]
DeleteFromTodoist(todoist_id) ==
  [type |-> "DeleteFromTodoist", todoist_id |-> todoist_id]
DeleteFromYarmtl(yarmtl_id) ==
  [type |-> "DeleteFromYarmtl", yarmtl_id |-> yarmtl_id]

IdsOf(tasks) == {tasks[i].id : i \in 1..Len(tasks)}
TodoistIdsOf(todoist_tasks) ==
  {Unwrap(todoist_tasks[i].id) : i \in 1..Len(todoist_tasks)}

\* a test that skips only the completed tasks that have a deadline
should_skip_dated_only(local_task) ==
  IF IsSome(local_task.deadline)
  THEN Unwrap(local_task.deadline) < Today - WindowDays
  ELSE FALSE

\* a test that also skips the task whose deadline is thirty days ago
should_skip_inclusive(local_task) ==
  IF IsSome(local_task.deadline)
  THEN Unwrap(local_task.deadline) <= Today - WindowDays
  ELSE TRUE

\* detect_changes, should_skip: a completed task without a mapping is left
\* out when it has no deadline or its deadline is before thirty_days_ago
should_skip(local_task) ==
  IF IsSome(local_task.deadline)
  THEN Unwrap(local_task.deadline) < Today - WindowDays
  ELSE TRUE

\* detect_changes, the body of the loop over the local tasks: the actions
\* one local task gives rise to
LocalScan(metadata, todoist_ids, local_task) ==
  IF IsSome(get_todoist_id(metadata, local_task.id))
  THEN IF Unwrap(get_todoist_id(metadata, local_task.id)) \in todoist_ids
       THEN IF IsSome(get_hash(metadata, local_task.id))
                 => Unwrap(get_hash(metadata, local_task.id))
                      # compute_task_hash(local_task)
            THEN <<UpdateTodoist(local_task.id, local_task)>>
            ELSE <<>>
       ELSE <<DeleteFromYarmtl(local_task.id)>>
  ELSE IF local_task.completed /\ should_skip(local_task)
       THEN <<>>
       ELSE <<CreateInTodoist(local_task)>>

\* a remote loop that never reads the sideband metadata
RemoteScan_blind(metadata, local_ids, todoist_task) ==
  LET todoist_id == Unwrap(todoist_task.id)
      yarmtl_id == get_yarmtl_id(metadata, todoist_id)
  IN IF IsSome(yarmtl_id)
     THEN IF Unwrap(yarmtl_id) \notin local_ids
          THEN <<DeleteFromTodoist(todoist_id)>>
          ELSE <<>>
     ELSE <<CreateInYarmtl(todoist_task)>>

\* a remote loop that deletes the mapped remote task whose local task is
\* still there
RemoteScan_inverted(metadata, local_ids, todoist_task) ==
  LET todoist_id == Unwrap(todoist_task.id)
      yarmtl_id == get_yarmtl_id(metadata, todoist_id)
      meta == extract_yarmtl_metadata(todoist_task)
  IN IF IsSome(yarmtl_id)
     THEN IF Unwrap(yarmtl_id) \in local_ids
          THEN <<DeleteFromTodoist(todoist_id)>>
          ELSE <<>>
     ELSE IF IsSome(meta) /\ Unwrap(meta).id \in local_ids
          THEN <<UpdateYarmtl(todoist_id, todoist_task)>>
          ELSE <<CreateInYarmtl(todoist_task)>>

\* detect_changes, the body of the loop over the remote tasks
RemoteScan(metadata, local_ids, todoist_task) ==
  LET todoist_id == Unwrap(todoist_task.id)
      yarmtl_id == get_yarmtl_id(metadata, todoist_id)
      meta == extract_yarmtl_metadata(todoist_task)
  IN IF IsSome(yarmtl_id)
     THEN IF Unwrap(yarmtl_id) \notin local_ids
          THEN <<DeleteFromTodoist(todoist_id)>>
          ELSE <<>>
     ELSE IF IsSome(meta) /\ Unwrap(meta).id \in local_ids
          THEN <<UpdateYarmtl(todoist_id, todoist_task)>>
          ELSE <<CreateInYarmtl(todoist_task)>>

RECURSIVE LocalScanAll(_, _, _)
LocalScanAll(metadata, todoist_ids, local_tasks) ==
  IF local_tasks = <<>> THEN <<>>
  ELSE LocalScan(metadata, todoist_ids, Head(local_tasks))
         \o LocalScanAll(metadata, todoist_ids, Tail(local_tasks))

RECURSIVE RemoteScanAll(_, _, _)
RemoteScanAll(metadata, local_ids, todoist_tasks) ==
  IF todoist_tasks = <<>> THEN <<>>
  ELSE RemoteScan(metadata, local_ids, Head(todoist_tasks))
         \o RemoteScanAll(metadata, local_ids, Tail(todoist_tasks))

\* a diff that scans the remote tasks first
detect_changes_remote_first(metadata, local_tasks, todoist_tasks) ==
  RemoteScanAll(metadata, IdsOf(local_tasks), todoist_tasks)
    \o LocalScanAll(metadata, TodoistIdsOf(todoist_tasks), local_tasks)

\* TodoistSync::detect_changes
detect_changes(metadata, local_tasks, todoist_tasks) ==
  LocalScanAll(metadata, TodoistIdsOf(todoist_tasks), local_tasks)
    \o RemoteScanAll(metadata, IdsOf(local_tasks), todoist_tasks)

\* ------------------------------------------------------------- state
VARIABLES
  tasks_file,      \* tasks.md: the sequence of its checkbox lines
  metadata_file,   \* .sync_metadata.json: [content, last_sync,
                   \* task_mappings]; content tells what the file holds
  remote,          \* the Todoist tasks, todoist id -> TodoistTask
  remote_projects, \* the Todoist projects, name -> project id
  server_seq,      \* the last id Todoist has assigned
  uuid,            \* the number of local ids drawn so far
  clock,           \* Utc::now(), read when last_sync is set
  app_tasks,       \* App.tasks, the task list of the running TUI
  pc,              \* where each pass is
  sync,            \* the TodoistSync instance of each pass
  env,             \* the number of user edits and process stops so far
  faults,          \* the number of remote calls that answered with an error
  solo,            \* the pass that has run alone and undisturbed so far, or 0
  settled,         \* a pass ran alone, all its actions succeeded, and nothing
                   \* has changed since it finished
  second,          \* the pass that started in a settled state, or 0
  probe            \* a function of the program looked at on its own: the
                   \* operation, its arguments and what it returned

vars == <<tasks_file, metadata_file, remote, remote_projects, server_seq,
          uuid, clock, app_tasks, pc, sync, env, faults, solo, settled,
          second, probe>>

Passes == 1..MaxPasses

\* no function is being looked at
NoProbe == [op |-> "none"]

EmptyMap == [k \in {} |-> None]

\* SyncReport::new
NewReport ==
  [created_in_todoist |-> 0, created_in_yarmtl |-> 0,
   updated_in_todoist |-> 0, updated_in_yarmtl |-> 0,
   deleted_in_todoist |-> 0, deleted_in_yarmtl |-> 0,
   conflicts_resolved |-> 0]

\* a TodoistSync that has not been constructed yet.  Besides the fields of
\* the struct it carries the position of the loop of sync (actions, idx), the
\* report and result of sync, what each applied action came to (log), who
\* started the pass (kind), the stores as the pass found them (pre) and how
\* the fetch at the start of sync went (fetch).
NoSync ==
  [metadata |-> EmptyMap, last_sync |-> 0, local_tasks |-> <<>>,
   tasks_modified |-> FALSE, projects |-> EmptyMap, todoist_tasks |-> <<>>,
   actions |-> <<>>, idx |-> 0, report |-> NewReport, log |-> <<>>,
   result |-> "none", kind |-> "none", pre |-> <<>>, fetch |-> "none"]

Active(p) == pc[p] \in {"new", "apply"}
Finished(p) == pc[p] \in {"done", "failed", "crashed"}

\* ------------------------------------------------- the initial stores
TaskA == MkTask(IdA, T("buy milk"), None, <<>>, None, FALSE, None, None)
\* TaskA before its last local edit
TaskAOld == MkTask(IdA, T("buy mlk"), None, <<>>, None, FALSE, None, None)
\* TaskA after the user gave it a deadline
TaskADue == MkTask(IdA, T("buy milk"), Some(45), <<>>, None, FALSE, None, None)
\* a completed task whose deadline is the day before thirty_days_ago
TaskStale == MkTask(IdA, T("renew pass"), Some(Today - WindowDays - 1), <<>>,
                    None, TRUE, None, None)
\* a completed task whose deadline is thirty_days_ago
TaskEdge == MkTask(IdB, T("file taxes"), Some(Today - WindowDays), <<>>, None,
                   TRUE, None, None)
\* a completed task whose deadline is inside the trailing window
TaskADone == MkTask(IdA, T("buy milk"), Some(35), <<>>, None, TRUE, None, None)
TaskB == MkTask(IdB, T("call bob"), Some(45), <<"work", "urgent">>, Some(44),
                FALSE, Some(T("ask for the keys")), Some(2))

\* a task filed under the first tag of TaskB
TaskC == MkTask(IdA, T("plan sprint"), None, <<"work">>, None, FALSE, None,
                None)

\* the remote image of TaskA
Remote1 ==
  [convert_yarmtl_to_todoist(EmptyMap, TaskA)
     EXCEPT !.id = Some(1), !.is_completed = Some(FALSE)]
\* a task the user made in Todoist
Remote2 ==
  TodoistTask(Some(2), T("pay rent"), None, Some(50), None, None, Some(FALSE),
              None)
\* a task whose sideband id is longer than IdDisplayLen
Remote3 ==
  TodoistTask(Some(3), T("old import"),
              Some(<<Piece("yarmtl", IdLong)>>), None, None, None,
              Some(FALSE), None)
\* a copy of Remote1 the user made in Todoist (same sideband id)
Remote4 == [Remote1 EXCEPT !.id = Some(4)]

\* Remote4 after the user changed its text in Todoist
Remote4Edited == [Remote4 EXCEPT !.content = T("edited in todoist")]

AsRemote(set) == [i \in {Unwrap(t.id) : t \in set} |->
                    CHOOSE t \in set : Unwrap(t.id) = i]

Synced(task, todoist_id) ==
  [k \in {task.id} |-> TaskSyncInfo(todoist_id, compute_task_hash(task))]

\* what .sync_metadata.json holds: the JSON of a SyncMetadata ("json"),
\* nothing because there is no such file ("absent"), text that is not the
\* JSON of a SyncMetadata ("invalid"), or the start of a JSON text, which may
\* be empty ("truncated")
Unreadable == {"invalid", "truncated"}

\* the file with the store of a finished pass
MetadataFile(last_sync, mappings) ==
  [content |-> "json", last_sync |-> last_sync, task_mappings |-> mappings]

\* the file in a state other than "json"
NoMetadata(content) ==
  [content |-> content, last_sync |-> 0, task_mappings |-> EmptyMap]

Stores(file, remote_tasks, mappings) ==
  [file |-> file, remote |-> AsRemote(remote_tasks),
   metadata |-> MetadataFile(0, mappings)]

\* stores whose metadata file is missing or cannot be read
StoresWithout(file, remote_tasks, content) ==
  [file |-> file, remote |-> AsRemote(remote_tasks),
   metadata |-> NoMetadata(content)]

\* the states of the three stores a behaviour may start from
InitStores ==
  { \* a new installation
    StoresWithout(<<>>, {}, "absent"),
    \* a synced task; the metadata file was damaged since
    StoresWithout(<<to_markdown(TaskA)>>, {Remote1}, "invalid"),
    \* local tasks that were never synced
    Stores(<<to_markdown(TaskA)>>, {}, EmptyMap),
    Stores(<<to_markdown(TaskADone)>>, {}, EmptyMap),
    \* two tasks under one first tag
    Stores(<<to_markdown(TaskB), to_markdown(TaskC)>>, {}, EmptyMap),
    \* completed tasks, never synced, at the edge of the 30-day window
    Stores(<<to_markdown(TaskStale), to_markdown(TaskEdge)>>, {}, EmptyMap),
    \* a synced task, unchanged; a second task not yet synced
    Stores(<<to_markdown(TaskA), to_markdown(TaskB)>>, {Remote1},
           Synced(TaskA, 1)),
    \* a synced task, edited locally since
    Stores(<<to_markdown(TaskA)>>, {Remote1}, Synced(TaskAOld, 1)),
    \* a synced task whose deadline was changed locally since
    Stores(<<to_markdown(TaskADue)>>, {Remote1}, Synced(TaskA, 1)),
    \* a synced task changed on both sides since, and an unmapped copy of
    \* its remote task made in Todoist
    Stores(<<to_markdown(TaskADue)>>, {Remote1, Remote4Edited},
           Synced(TaskA, 4)),
    \* a synced task, deleted locally since
    Stores(<<>>, {Remote1}, Synced(TaskA, 1)),
    \* a synced task, deleted in Todoist since
    Stores(<<to_markdown(TaskA)>>, {}, Synced(TaskA, 1)),
    \* a local task and two unmapped remote tasks that carry its id
    Stores(<<to_markdown(TaskA)>>, {Remote1, Remote4}, EmptyMap),
    \* a synced task, unchanged, and a task made in Todoist since
    Stores(<<to_markdown(TaskA)>>, {Remote1, Remote2}, Synced(TaskA, 1)),
    \* tasks made in Todoist, not yet pulled
    Stores(<<>>, {Remote2}, EmptyMap),
    Stores(<<>>, {Remote3}, EmptyMap) }

\* no two entries share a remote id
Injective(mappings) ==
  \A k1, k2 \in DOMAIN mappings :
    mappings[k1].todoist_id = mappings[k2].todoist_id => k1 = k2

Init ==
  /\ \E st \in InitStores :
       /\ Injective(st.metadata.task_mappings)
       /\ tasks_file = st.file
       /\ remote = st.remote
       /\ metadata_file = st.metadata
  /\ remote_projects = EmptyMap
  /\ server_seq = 10
  /\ uuid = 0
  /\ clock = 0
  /\ app_tasks = load_local_tasks(tasks_file, 0)
  /\ pc = [p \in Passes |-> "idle"]
  /\ sync = [p \in Passes |-> NoSync]
  /\ env = 0
  /\ faults = 0
  /\ solo = 0
  /\ settled = FALSE
  /\ second = 0
  /\ probe = NoProbe

\* ------------------------------------------------ the Todoist service
\* GET /tasks: the active tasks, in id order
RECURSIVE ListFrom(_, _)
ListFrom(r, ids) ==
  IF ids = {} THEN <<>>
  ELSE LET i == CHOOSE x \in ids : \A y \in ids : x <= y
       IN (IF r[i].is_completed = Some(FALSE) THEN <<r[i]>> ELSE <<>>)
            \o ListFrom(r, ids \ {i})

ServerListTasks(r) == ListFrom(r, DOMAIN r)

\* POST /tasks
ServerCreateTask(r, id, body) ==
  [i \in DOMAIN r \cup {id} |->
     IF i = id THEN [body EXCEPT !.id = Some(id), !.is_completed = Some(FALSE)]
     ELSE r[i]]

\* POST /tasks/{id}: the fields the body carries replace the stored ones
ServerUpdateTask(r, id, body) ==
  [r EXCEPT ![id] =
     [@ EXCEPT !.content = body.content,
               !.description = IF IsSome(body.description)
                               THEN body.description ELSE @,
               !.due = IF IsSome(body.due) THEN body.due ELSE @,
               !.labels = IF IsSome(body.labels) THEN body.labels ELSE @,
               !.priority = IF IsSome(body.priority) THEN body.priority ELSE @,
               !.project_id = IF IsSome(body.project_id)
                              THEN body.project_id ELSE @]]

\* POST /tasks/{id}/close and /reopen
ServerSetCompleted(r, id, c) ==
  [r EXCEPT ![id] = [@ EXCEPT !.is_completed = Some(c)]]

\* DELETE /tasks/{id}
ServerDeleteTask(r, id) == [i \in DOMAIN r \ {id} |-> r[i]]

\* a map with one more entry
Put(map, k, v) == [x \in DOMAIN map \cup {k} |-> IF x = k THEN v ELSE map[x]]

\* ------------------------------------------------------ apply_action
\* The answers of the Todoist service a pass can meet while it applies one
\* action: every call answers, or the project call fails, or the create /
\* update / delete call fails with one of the errors of TodoistError, or the
\* close / reopen call fails.
MainErrors == {"rate_limit", "auth", "not_found", "api_error"}
Answers == {"ok", "project_fails", "second_fails"} \cup MainErrors

\* a request to the Todoist service: the client method, the task id in the
\* path and the task in the body, where the request has one
Call(op, id, body) == [op |-> op, id |-> id, body |-> body]

\* what applying an action yields: the fields of the TodoistSync it changes,
\* the state of the service, the result of apply_action ("ok" or the error),
\* the requests issued, in order, and their number, and whether a
\* close/reopen error was dropped
Yield(s, r, rp, seq, u, res, sent, dropped) ==
  [sync |-> s, remote |-> r, remote_projects |-> rp, server_seq |-> seq,
   uuid |-> u, res |-> res, calls |-> Len(sent), sent |-> sent,
   dropped |-> dropped]

\* get_or_create_project is called and finds no cached project
NeedsProject(s, task) ==
  task.tags # <<>> /\ task.tags[1] \notin DOMAIN s.projects

\* apply_action, arm CreateInTodoist
ApplyCreateInTodoist(s, a, r, rp, seq, u, f) ==
  LET task == a.task
      np == NeedsProject(s, task)
      made == np /\ f # "project_fails"
      projects1 == IF made THEN Put(s.projects, task.tags[1], seq + 1)
                   ELSE s.projects
      rp1 == IF made THEN Put(rp, task.tags[1], seq + 1) ELSE rp
      seq1 == IF made THEN seq + 1 ELSE seq
      s1 == [s EXCEPT !.projects = projects1]
      body == convert_yarmtl_to_todoist(projects1, task)
      todoist_id == seq1 + 1
      created == ServerCreateTask(r, todoist_id, body)
      closed == IF task.completed /\ f # "second_fails"
                THEN ServerSetCompleted(created, todoist_id, TRUE)
                ELSE created
      info == TaskSyncInfo(todoist_id, compute_task_hash(task))
      sent == (IF np THEN <<Call("create_project", None, None)>> ELSE <<>>)
                \o <<Call("create_task", None, Some(body))>>
  IN IF f \in MainErrors
     THEN Yield(s1, r, rp1, seq1, u, f, sent, FALSE)
     ELSE Yield([s1 EXCEPT !.metadata = update_mapping(@, task.id, info)],
                closed, rp1, seq1 + 1, u, "ok",
                sent \o (IF task.completed
                         THEN <<Call("close_task", Some(todoist_id), None)>>
                         ELSE <<>>),
                task.completed /\ f = "second_fails")

\* apply_action, arm CreateInYarmtl
ApplyCreateInYarmtl(s, a, r, rp, seq, u) ==
  LET yarmtl_task == convert_todoist_to_yarmtl(s.projects, a.task, u)
      u1 == IF IsSome(extract_yarmtl_metadata(a.task)) THEN u ELSE u + 1
      info == TaskSyncInfo(Unwrap(a.task.id), compute_task_hash(yarmtl_task))
  IN Yield([s EXCEPT !.metadata = update_mapping(@, yarmtl_task.id, info),
                     !.local_tasks = Append(@, yarmtl_task),
                     !.tasks_modified = TRUE],
           r, rp, seq, u1, "ok", <<>>, FALSE)

\* an UpdateTodoist arm that hands the error of the close or reopen call to
\* its caller with `?`
ApplyUpdateTodoist_propagating(s, a, r, rp, seq, u, f) ==
  LET task == a.task
      mapped == get_todoist_id(s.metadata, a.yarmtl_id)
      todoist_id == Unwrap(mapped)
      np == NeedsProject(s, task)
      made == np /\ f # "project_fails"
      projects1 == IF made THEN Put(s.projects, task.tags[1], seq + 1)
                   ELSE s.projects
      rp1 == IF made THEN Put(rp, task.tags[1], seq + 1) ELSE rp
      seq1 == IF made THEN seq + 1 ELSE seq
      s1 == [s EXCEPT !.projects = projects1]
      body == convert_yarmtl_to_todoist(projects1, task)
      updated == ServerUpdateTask(r, todoist_id, body)
      info == TaskSyncInfo(todoist_id, compute_task_hash(task))
      sent == (IF np THEN <<Call("create_project", None, None)>> ELSE <<>>)
                \o <<Call("update_task", Some(todoist_id), Some(body))>>
      toggle == Call(IF task.completed THEN "close_task" ELSE "reopen_task",
                     Some(todoist_id), None)
  IN IF ~IsSome(mapped)
     THEN Yield(s, r, rp, seq, u, "ok", <<>>, FALSE)
     ELSE IF todoist_id \notin DOMAIN r
     THEN Yield(s1, r, rp1, seq1, u, "not_found", sent, FALSE)
     ELSE IF f \in MainErrors
     THEN Yield(s1, r, rp1, seq1, u, f, sent, FALSE)
     ELSE IF f = "second_fails"
     THEN Yield(s1, updated, rp1, seq1, u, "api_error", sent \o <<toggle>>,
                TRUE)
     ELSE Yield([s1 EXCEPT !.metadata = update_mapping(@, a.yarmtl_id, info)],
                ServerSetCompleted(updated, todoist_id, task.completed),
                rp1, seq1, u, "ok", sent \o <<toggle>>, FALSE)

\* apply_action, arm UpdateTodoist
ApplyUpdateTodoist(s, a, r, rp, seq, u, f) ==
  LET task == a.task
      mapped == get_todoist_id(s.metadata, a.yarmtl_id)
      todoist_id == Unwrap(mapped)
      np == NeedsProject(s, task)
      made == np /\ f # "project_fails"
      projects1 == IF made THEN Put(s.projects, task.tags[1], seq + 1)
                   ELSE s.projects
      rp1 == IF made THEN Put(rp, task.tags[1], seq + 1) ELSE rp
      seq1 == IF made THEN seq + 1 ELSE seq
      s1 == [s EXCEPT !.projects = projects1]
      body == convert_yarmtl_to_todoist(projects1, task)
      updated == ServerUpdateTask(r, todoist_id, body)
      toggled == IF f = "second_fails" THEN updated
                 ELSE ServerSetCompleted(updated, todoist_id, task.completed)
      info == TaskSyncInfo(todoist_id, compute_task_hash(task))
      sent == (IF np THEN <<Call("create_project", None, None)>> ELSE <<>>)
                \o <<Call("update_task", Some(todoist_id), Some(body))>>
      toggle == Call(IF task.completed THEN "close_task" ELSE "reopen_task",
                     Some(todoist_id), None)
  IN IF ~IsSome(mapped)
     THEN Yield(s, r, rp, seq, u, "ok", <<>>, FALSE)
     ELSE IF todoist_id \notin DOMAIN r
     THEN Yield(s1, r, rp1, seq1, u, "not_found", sent, FALSE)
     ELSE IF f \in MainErrors
     THEN Yield(s1, r, rp1, seq1, u, f, sent, FALSE)
     ELSE Yield([s1 EXCEPT !.metadata = update_mapping(@, a.yarmtl_id, info)],
                toggled, rp1, seq1, u, "ok", sent \o <<toggle>>,
                f = "second_fails")

\* the local list with the first task whose id is id replaced by task
RECURSIVE ReplaceFirst(_, _, _)
ReplaceFirst(tasks, id, task) ==
  IF tasks = <<>> THEN <<>>
  ELSE IF Head(tasks).id = id THEN <<task>> \o Tail(tasks)
  ELSE <<Head(tasks)>> \o ReplaceFirst(Tail(tasks), id, task)

\* apply_action, arm UpdateYarmtl
ApplyUpdateYarmtl(s, a, r, rp, seq, u) ==
  LET yarmtl_task == convert_todoist_to_yarmtl(s.projects, a.task, u)
      u1 == IF IsSome(extract_yarmtl_metadata(a.task)) THEN u ELSE u + 1
      found == yarmtl_task.id \in IdsOf(s.local_tasks)
      info == TaskSyncInfo(a.todoist_id, compute_task_hash(yarmtl_task))
  IN Yield([s EXCEPT !.local_tasks =
                        IF found
                        THEN ReplaceFirst(@, yarmtl_task.id, yarmtl_task)
                        ELSE @,
                     !.tasks_modified = IF found THEN TRUE ELSE @,
                     !.metadata = update_mapping(@, yarmtl_task.id, info)],
           r, rp, seq, u1, "ok", <<>>, FALSE)

\* apply_action, arm DeleteFromTodoist
ApplyDeleteFromTodoist(s, a, r, rp, seq, u, f) ==
  IF f \in MainErrors
  THEN Yield(s, r, rp, seq, u, f,
             <<Call("delete_task", Some(a.todoist_id), None)>>, FALSE)
  ELSE Yield(s, ServerDeleteTask(r, a.todoist_id), rp, seq, u, "ok",
             <<Call("delete_task", Some(a.todoist_id), None)>>, FALSE)

\* a removal that also drops every task after the first one removed
Retain_truncate(tasks, id) ==
  IF \E i \in 1..Len(tasks) : tasks[i].id = id
  THEN SubSeq(tasks, 1,
              (CHOOSE i \in 1..Len(tasks) :
                 /\ tasks[i].id = id
                 /\ \A j \in 1..(i - 1) : tasks[j].id # id) - 1)
  ELSE tasks

\* Vec::retain(|t| t.id != id)
RECURSIVE Retain(_, _)
Retain(tasks, id) ==
  IF tasks = <<>> THEN <<>>
  ELSE (IF Head(tasks).id # id THEN <<Head(tasks)>> ELSE <<>>)
         \o Retain(Tail(tasks), id)

\* an arm DeleteFromYarmtl that does not set tasks_modified
ApplyDeleteFromYarmtl_unflagged(s, a, r, rp, seq, u) ==
  Yield([s EXCEPT !.local_tasks = Retain(@, a.yarmtl_id),
                  !.metadata = remove_mapping(@, a.yarmtl_id)],
        r, rp, seq, u, "ok", <<>>, FALSE)

\* apply_action, arm DeleteFromYarmtl
ApplyDeleteFromYarmtl(s, a, r, rp, seq, u) ==
  Yield([s EXCEPT !.local_tasks = Retain(@, a.yarmtl_id),
                  !.tasks_modified = TRUE,
                  !.metadata = remove_mapping(@, a.yarmtl_id)],
        r, rp, seq, u, "ok", <<>>, FALSE)

\* TodoistSync::apply_action
apply_action(s, a, r, rp, seq, u, f) ==
  CASE a.type = "CreateInTodoist" -> ApplyCreateInTodoist(s, a, r, rp, seq, u, f)
    [] a.type = "CreateInYarmtl" -> ApplyCreateInYarmtl(s, a, r, rp, seq, u)
    [] a.type = "UpdateTodoist" -> ApplyUpdateTodoist(s, a, r, rp, seq, u, f)
    [] a.type = "UpdateYarmtl" -> ApplyUpdateYarmtl(s, a, r, rp, seq, u)
    [] a.type = "DeleteFromTodoist" ->
         ApplyDeleteFromTodoist(s, a, r, rp, seq, u, f)
    [] a.type = "DeleteFromYarmtl" -> ApplyDeleteFromYarmtl(s, a, r, rp, seq, u)

\* the answers the service can give while action a is applied: an error
\* needs the call it is the answer to
CanAnswer(s, a, r, f) ==
  \/ f = "ok"
  \/ /\ f = "project_fails"
     /\ a.type \in {"CreateInTodoist", "UpdateTodoist"}
     /\ NeedsProject(s, a.task)
     /\ a.type = "UpdateTodoist" => IsSome(get_todoist_id(s.metadata, a.yarmtl_id))
  \/ /\ f \in MainErrors
     /\ \/ a.type \in {"CreateInTodoist", "DeleteFromTodoist"}
        \/ /\ a.type = "UpdateTodoist"
           /\ IsSome(get_todoist_id(s.metadata, a.yarmtl_id))
           /\ Unwrap(get_todoist_id(s.metadata, a.yarmtl_id)) \in DOMAIN r
  \/ /\ f = "second_fails"
     /\ \/ a.type = "CreateInTodoist" /\ a.task.completed
        \/ /\ a.type = "UpdateTodoist"
           /\ IsSome(get_todoist_id(s.metadata, a.yarmtl_id))
           /\ Unwrap(get_todoist_id(s.metadata, a.yarmtl_id)) \in DOMAIN r

\* the local id an UpdateYarmtl or CreateInYarmtl of a task with sideband
\* metadata is about
TargetOf(a) == Unwrap(extract_yarmtl_metadata(a.task)).id

\* the action is one whose arm changes self.local_tasks and sets
\* tasks_modified
MutatesList(s, a) ==
  \/ a.type \in {"CreateInYarmtl", "DeleteFromYarmtl"}
  \/ a.type = "UpdateYarmtl" /\ TargetOf(a) \in IdsOf(s.local_tasks)

\* a loop that returns the first error of an action with `?`
AfterAction_propagate(res) == IF res = "ok" THEN "apply" ELSE "failed"

\* sync, the match on the result of apply_action: Ok is counted, Err is
\* printed, and in both cases the loop goes on to the next action
AfterAction(res) == "apply"

\* a match that counts an action whatever its application returned
Count_failed_too(report, type, res) ==
  CASE type = "CreateInTodoist" ->
         [report EXCEPT !.created_in_todoist = @ + 1]
    [] type = "CreateInYarmtl" ->
         [report EXCEPT !.created_in_yarmtl = @ + 1]
    [] type = "UpdateTodoist" ->
         [report EXCEPT !.updated_in_todoist = @ + 1]
    [] type = "UpdateYarmtl" ->
         [report EXCEPT !.updated_in_yarmtl = @ + 1]
    [] type = "DeleteFromTodoist" ->
         [report EXCEPT !.deleted_in_todoist = @ + 1]
    [] type = "DeleteFromYarmtl" ->
         [report EXCEPT !.deleted_in_yarmtl = @ + 1]

\* the match on the result of apply_action in TodoistSync::sync
Count(report, type, res) ==
  IF res # "ok" THEN report
  ELSE CASE type = "CreateInTodoist" ->
              [report EXCEPT !.created_in_todoist = @ + 1]
         [] type = "CreateInYarmtl" ->
              [report EXCEPT !.created_in_yarmtl = @ + 1]
         [] type = "UpdateTodoist" ->
              [report EXCEPT !.updated_in_todoist = @ + 1]
         [] type = "UpdateYarmtl" ->
              [report EXCEPT !.updated_in_yarmtl = @ + 1]
         [] type = "DeleteFromTodoist" ->
              [report EXCEPT !.deleted_in_todoist = @ + 1]
         [] type = "DeleteFromYarmtl" ->
              [report EXCEPT !.deleted_in_yarmtl = @ + 1]

\* ---------------------------------------------------- starting a pass
\* the pass slot the next pass takes
NextPass == CHOOSE p \in Passes : pc[p] = "idle" /\ \A q \in Passes : pc[q] = "idle" => p <= q
HasIdle == \E p \in Passes : pc[p] = "idle"
OthersActive(p) == \E q \in Passes \ {p} : Active(q)

\* manual_sync blocks the TUI thread until its pass returns
TuiBlocked == \E p \in Passes : Active(p) /\ sync[p].kind = "manual"

\* the user changed a store by hand: nothing is settled any more
Disturb == solo' = 0 /\ settled' = FALSE /\ second' = 0

\* tokio::spawn(trigger_todoist_sync()) after a write of tasks.md
SpawnAfterEdit(p, kind) ==
  /\ pc' = [pc EXCEPT ![p] = "new"]
  /\ sync' = [sync EXCEPT ![p] = [NoSync EXCEPT !.kind = kind]]
  /\ solo' = IF OthersActive(p) THEN 0 ELSE p
  /\ settled' = FALSE
  /\ second' = 0

\* App::save_tasks_with_message: write the TUI's list, spawn a pass
save_tasks_with_message(tasks, p) ==
  /\ tasks_file' = save_local_tasks(tasks)
  /\ SpawnAfterEdit(p, "spawned")

\* App::toggle_completed
ToggleCompleted ==
  /\ ~TuiBlocked /\ HasIdle /\ env + faults < MaxEvents
  /\ \E i \in 1..Len(app_tasks) :
       /\ app_tasks' = [app_tasks EXCEPT ![i].completed = ~@]
       /\ save_tasks_with_message(app_tasks', NextPass)
  /\ env' = env + 1
  /\ UNCHANGED <<metadata_file, remote, remote_projects, server_seq, uuid,
                 clock, faults>>
  /\ UNCHANGED probe

\* App::delete_selected_task
DeleteSelectedTask ==
  /\ ~TuiBlocked /\ HasIdle /\ env + faults < MaxEvents
  /\ \E i \in 1..Len(app_tasks) :
       /\ app_tasks' = SubSeq(app_tasks, 1, i - 1)
                         \o SubSeq(app_tasks, i + 1, Len(app_tasks))
       /\ save_tasks_with_message(app_tasks', NextPass)
  /\ env' = env + 1
  /\ UNCHANGED <<metadata_file, remote, remote_projects, server_seq, uuid,
                 clock, faults>>
  /\ UNCHANGED probe

\* App::manual_sync, up to the call of trigger_todoist_sync
ManualSync ==
  /\ ~TuiBlocked /\ HasIdle
  /\ LET p == NextPass
     IN /\ pc' = [pc EXCEPT ![p] = "new"]
        /\ sync' = [sync EXCEPT ![p] = [NoSync EXCEPT !.kind = "manual"]]
        /\ solo' = IF OthersActive(p) THEN 0 ELSE p
        /\ settled' = (settled /\ ~OthersActive(p))
        /\ second' = IF settled /\ ~OthersActive(p) THEN p ELSE 0
  /\ UNCHANGED <<tasks_file, metadata_file, remote, remote_projects,
                 server_seq, uuid, clock, app_tasks, env, faults>>
  /\ UNCHANGED probe

\* App::load_tasks (the reload key)
LoadTasks ==
  /\ ~TuiBlocked
  /\ app_tasks # load_local_tasks(tasks_file, uuid)
  /\ app_tasks' = load_local_tasks(tasks_file, uuid)
  /\ uuid' = uuid + CountNoId(tasks_file)
  /\ UNCHANGED <<tasks_file, metadata_file, remote, remote_projects,
                 server_seq, clock, pc, sync, env, faults, solo, settled,
                 second>>
  /\ UNCHANGED probe

\* ------------------------------------------------ the steps of a pass
\* a pass ended without finishing: what was settled is no longer known
Unsettle(p) ==
  /\ solo' = IF solo = p THEN 0 ELSE solo
  /\ settled' = FALSE
  /\ second' = second

\* a load that takes a file it cannot read for an empty store
SyncMetadata_load_lenient(file, now) ==
  IF file.content = "json"
  THEN [ok |-> TRUE, last_sync |-> file.last_sync,
        task_mappings |-> file.task_mappings]
  ELSE [ok |-> TRUE, last_sync |-> now, task_mappings |-> EmptyMap]

\* SyncMetadata::load: SyncMetadata::new() when there is no file, the store
\* the file holds when it is the JSON of one, else the error of
\* serde_json::from_str; now is Utc::now()
SyncMetadata_load(file, now) ==
  IF file.content = "absent"
  THEN [ok |-> TRUE, last_sync |-> now, task_mappings |-> EmptyMap]
  ELSE IF file.content = "json"
  THEN [ok |-> TRUE, last_sync |-> file.last_sync,
        task_mappings |-> file.task_mappings]
  ELSE [ok |-> FALSE, last_sync |-> 0, task_mappings |-> EmptyMap]

\* what the start of sync can meet: every call answers and tasks.md is read,
\* or list_projects, list_tasks or the read of tasks.md returns an error
FetchErrors == {"list_projects", "list_tasks", "load_local_tasks"}
FetchAnswers == {"ok"} \cup FetchErrors

\* a fetch that takes an error of list_tasks for an empty list
list_tasks_or_default(r, f) ==
  [ok |-> TRUE,
   tasks |-> IF f = "list_tasks" THEN <<>> ELSE ServerListTasks(r)]

\* self.client.list_tasks().await?
list_tasks(r, f) ==
  [ok |-> f # "list_tasks",
   tasks |-> IF f = "list_tasks" THEN <<>> ELSE ServerListTasks(r)]

\* trigger_todoist_sync up to the end of the diff: TodoistSync::new (load of
\* the metadata file, whose error is returned to the caller), then in sync
\* list_projects, list_tasks, load_local_tasks and detect_changes.  An error
\* of list_projects, of list_tasks or of the read of tasks.md is returned to
\* the caller.
Fetch(p) ==
  /\ pc[p] = "new"
  /\ \/ /\ SyncMetadata_load(metadata_file, clock).ok
        /\ uuid + CountNoId(tasks_file) <= Len(Digit)
        /\ \E f \in FetchAnswers \ {"list_projects", "load_local_tasks"} :
             LET loaded == SyncMetadata_load(metadata_file, clock)
                 metadata == loaded.task_mappings
                 fetched == list_tasks(remote, f)
                 todoist_tasks == fetched.tasks
                 local_tasks == load_local_tasks(tasks_file, uuid)
             IN /\ fetched.ok
                /\ f # "ok" => env + faults < MaxEvents
                /\ faults' = IF f # "ok" THEN faults + 1 ELSE faults
                /\ sync' = [sync EXCEPT
                              ![p].metadata = metadata,
                              ![p].last_sync = loaded.last_sync,
                              ![p].projects = remote_projects,
                              ![p].todoist_tasks = todoist_tasks,
                              ![p].local_tasks = local_tasks,
                              ![p].tasks_modified = FALSE,
                              ![p].actions = detect_changes(metadata,
                                                            local_tasks,
                                                            todoist_tasks),
                              ![p].idx = 1,
                              ![p].fetch = f,
                              ![p].pre = [local_tasks |-> local_tasks,
                                          metadata |-> metadata,
                                          remote |-> remote,
                                          projects |-> remote_projects]]
        /\ uuid' = uuid + CountNoId(tasks_file)
        /\ pc' = [pc EXCEPT ![p] = "apply"]
        /\ UNCHANGED <<solo, settled, second>>
     \/ /\ ~SyncMetadata_load(metadata_file, clock).ok
        /\ sync' = [sync EXCEPT ![p] = [NoSync EXCEPT !.result = "Err",
                                                      !.kind = sync[p].kind,
                                                      !.fetch = "metadata"]]
        /\ pc' = [pc EXCEPT ![p] = "failed"]
        /\ Unsettle(p)
        /\ UNCHANGED <<uuid, faults>>
     \/ /\ SyncMetadata_load(metadata_file, clock).ok
        /\ env + faults < MaxEvents
        /\ \E f \in FetchErrors :
             /\ f = "list_tasks" => ~list_tasks(remote, f).ok
             /\ sync' = [sync EXCEPT ![p] = [NoSync EXCEPT
                                               !.result = "Err",
                                               !.kind = sync[p].kind,
                                               !.fetch = f]]
        /\ faults' = faults + 1
        /\ pc' = [pc EXCEPT ![p] = "failed"]
        /\ Unsettle(p)
        /\ UNCHANGED uuid
  /\ UNCHANGED <<tasks_file, metadata_file, remote, remote_projects,
                 server_seq, clock, app_tasks, env>>
  /\ UNCHANGED probe

\* sync: one turn of the loop over the actions
Apply(p) ==
  /\ pc[p] = "apply"
  /\ sync[p].idx <= Len(sync[p].actions)
  /\ uuid < Len(Digit)
  /\ \E f \in Answers :
       LET s == sync[p]
           a == s.actions[s.idx]
       IN /\ CanAnswer(s, a, remote, f)
          /\ f # "ok" => env + faults < MaxEvents
          /\ faults' = IF f # "ok" THEN faults + 1 ELSE faults
          /\ \E y \in {apply_action(s, a, remote, remote_projects,
                                    server_seq, uuid, f)} :
               /\ sync' = [sync EXCEPT ![p] =
                             [y.sync EXCEPT
                                !.idx = @ + 1,
                                !.report = Count(@, a.type, y.res),
                                !.log = Append(@,
                                          [type |-> a.type, res |-> y.res,
                                           calls |-> y.calls,
                                           sent |-> y.sent,
                                           dropped |-> y.dropped,
                                           mutated |-> MutatesList(s, a)]),
                                !.result = IF AfterAction(y.res) = "failed"
                                           THEN "Err" ELSE @]]
               /\ pc' = [pc EXCEPT ![p] = AfterAction(y.res)]
               /\ remote' = y.remote
               /\ remote_projects' = y.remote_projects
               /\ server_seq' = y.server_seq
               /\ uuid' = y.uuid
  /\ UNCHANGED <<tasks_file, metadata_file, clock, app_tasks, env, solo,
                 settled, second>>
  /\ UNCHANGED probe

\* every action of the pass was applied and answered without an error
AllOk(log) == \A i \in 1..Len(log) : log[i].res = "ok" /\ ~log[i].dropped

\* sync: save_local_tasks when tasks_modified, update_last_sync, save the
\* metadata, return the report; manual_sync then reloads the TUI's list
Persist(p) ==
  /\ pc[p] = "apply"
  /\ sync[p].idx > Len(sync[p].actions)
  /\ tasks_file' = IF sync[p].tasks_modified
                   THEN save_local_tasks(sync[p].local_tasks)
                   ELSE tasks_file
  /\ clock' = clock + 1
  /\ sync' = [sync EXCEPT ![p].last_sync = clock', ![p].result = "Ok"]
  /\ metadata_file' = MetadataFile(clock', sync[p].metadata)
  /\ pc' = [pc EXCEPT ![p] = "done"]
  /\ IF sync[p].kind = "manual"
     THEN /\ app_tasks' = load_local_tasks(tasks_file', uuid)
          /\ uuid' = uuid + CountNoId(tasks_file')
     ELSE UNCHANGED <<app_tasks, uuid>>
  /\ solo' = 0
  /\ settled' = (solo = p /\ AllOk(sync[p].log))
  /\ second' = second
  /\ UNCHANGED <<remote, remote_projects, server_seq, env, faults>>
  /\ UNCHANGED probe

\* the process running the pass stops (the TUI is quit or killed) before the
\* pass has finished: the TodoistSync and all it held in memory are gone
Crash(p) ==
  /\ Active(p)
  /\ env + faults < MaxEvents
  /\ env' = env + 1
  /\ pc' = [pc EXCEPT ![p] = "crashed"]
  /\ sync' = [sync EXCEPT ![p] = [NoSync EXCEPT !.kind = sync[p].kind]]
  /\ Unsettle(p)
  /\ UNCHANGED <<tasks_file, metadata_file, remote, remote_projects,
                 server_seq, uuid, clock, app_tasks, faults>>
  /\ UNCHANGED probe

\* the process stops while SyncMetadata::save writes the file: fs::write has
\* opened the file, which empties it, and has written none or a part of the
\* new content.  (A stop before the file is opened is Crash, a stop after
\* the last byte is written leaves what Persist leaves.)
CrashInSave(p) ==
  /\ pc[p] = "apply"
  /\ sync[p].idx > Len(sync[p].actions)
  /\ env + faults < MaxEvents
  /\ env' = env + 1
  /\ tasks_file' = IF sync[p].tasks_modified
                   THEN save_local_tasks(sync[p].local_tasks)
                   ELSE tasks_file
  /\ metadata_file' = NoMetadata("truncated")
  /\ pc' = [pc EXCEPT ![p] = "crashed"]
  /\ sync' = [sync EXCEPT ![p] = [NoSync EXCEPT !.kind = sync[p].kind]]
  /\ Unsettle(p)
  /\ UNCHANGED <<remote, remote_projects, server_seq, uuid, clock, app_tasks,
                 faults>>
  /\ UNCHANGED probe

\* ----------------------------------------- the user's edits in Todoist
UserDeletesRemote ==
  /\ env + faults < MaxEvents
  /\ \E id \in DOMAIN remote : remote' = ServerDeleteTask(remote, id)
  /\ env' = env + 1
  /\ Disturb
  /\ UNCHANGED <<tasks_file, metadata_file, remote_projects, server_seq, uuid,
                 clock, app_tasks, pc, sync, faults>>
  /\ UNCHANGED probe

UserEditsRemote ==
  /\ env + faults < MaxEvents
  /\ \E id \in DOMAIN remote :
       /\ remote[id].content # T("edited in todoist")
       /\ remote' = [remote EXCEPT ![id].content = T("edited in todoist")]
  /\ env' = env + 1
  /\ Disturb
  /\ UNCHANGED <<tasks_file, metadata_file, remote_projects, server_seq, uuid,
                 clock, app_tasks, pc, sync, faults>>
  /\ UNCHANGED probe

UserCreatesRemote ==
  /\ env + faults < MaxEvents
  /\ remote' = ServerCreateTask(remote, server_seq + 1,
                 TodoistTask(None, T("book flight"), None, None, None, None,
                             None, None))
  /\ server_seq' = server_seq + 1
  /\ env' = env + 1
  /\ Disturb
  /\ UNCHANGED <<tasks_file, metadata_file, remote_projects, uuid, clock,
                 app_tasks, pc, sync, faults>>
  /\ UNCHANGED probe

\* ------------------------------------------------------- specification
Next ==
  \/ ToggleCompleted
  \/ DeleteSelectedTask
  \/ ManualSync
  \/ LoadTasks
  \/ \E p \in Passes : Fetch(p)
  \/ \E p \in Passes : Apply(p)
  \/ \E p \in Passes : Persist(p)
  \/ \E p \in Passes : Crash(p)
  \/ \E p \in Passes : CrashInSave(p)
  \/ UserDeletesRemote
  \/ UserEditsRemote
  \/ UserCreatesRemote

Spec == Init /\ [][Next]_vars

\* ================================================ saves in quick succession
\* the number of saves the user makes in the TUI
MaxSaves == 2

\* App::toggle_completed pressed again while the passes of earlier saves may
\* still be under way: the list is written and one more pass is spawned
QuickSave ==
  /\ ~TuiBlocked /\ HasIdle /\ env < MaxSaves
  /\ \E i \in 1..Len(app_tasks) :
       /\ app_tasks' = [app_tasks EXCEPT ![i].completed = ~@]
       /\ save_tasks_with_message(app_tasks', NextPass)
  /\ env' = env + 1
  /\ UNCHANGED <<metadata_file, remote, remote_projects, server_seq, uuid,
                 clock, faults>>
  /\ UNCHANGED probe

\* local saves, each of which spawns a background pass, and the passes
SavesNext ==
  \/ QuickSave
  \/ \E p \in Passes : Fetch(p)
  \/ \E p \in Passes : Apply(p)
  \/ \E p \in Passes : Persist(p)

SavesSpec == Init /\ [][SavesNext]_vars

\* ================================================ the functions on their own
\* the length of the longest input typed into the TUI
MaxTyped == 3

\* what a typed input is made of
TypedPieces ==
  {W("buy milk"), Piece("!", 45), Piece("#", "work"), Piece("@", 44),
   Piece("$", 3), Piece("$", 7), Piece("//", 0), Piece("[", "docs")}

\* App::add_task: the inputs a user types
TypedInputs == UNION {[1..n -> TypedPieces] : n \in 1..MaxTyped}

\* the remote tasks a pass may fetch: written by this program, by another
\* client, or in the Todoist application
FetchedInputs ==
  {Remote1, Remote2, Remote3, Remote4,
   [Remote2 EXCEPT !.content = <<W("pay rent"), Piece("#", "home")>>],
   [Remote2 EXCEPT !.content = <<W("see https:"), Piece("//", 0),
                                 W("example.com")>>]}

\* the tasks the program can hold: parsed from a typed input, or converted
\* from a fetched remote task
TaskInputs ==
  {Task_parse(input, 1) : input \in TypedInputs}
  \cup {convert_todoist_to_yarmtl(EmptyMap, r, 0) : r \in FetchedInputs}

\* the program's stores, left alone while a function is looked at
PureStores ==
  /\ tasks_file = <<>>
  /\ remote = EmptyMap
  /\ metadata_file = NoMetadata("absent")
  /\ remote_projects = EmptyMap
  /\ server_seq = 10
  /\ uuid = 0
  /\ clock = 0
  /\ app_tasks = <<>>
  /\ pc = [p \in Passes |-> "idle"]
  /\ sync = [p \in Passes |-> NoSync]
  /\ env = 0
  /\ faults = 0
  /\ solo = 0
  /\ settled = FALSE
  /\ second = 0

PureFrame ==
  UNCHANGED <<tasks_file, metadata_file, remote, remote_projects, server_seq,
              uuid, clock, app_tasks, pc, sync, env, faults, solo, settled,
              second>>

\* a task is held
InitTask == probe \in {[op |-> "task", task |-> t] : t \in TaskInputs}

\* save_local_tasks then load_local_tasks: the task is written to its store
\* line and the line is read back
WriteAndRead ==
  /\ probe.op = "task"
  /\ \E u \in 0..1 :
       probe' = [op |-> "reloaded", task |-> probe.task,
                 back |-> load_local_tasks(
                            save_local_tasks(<<probe.task>>), u)[1]]
  /\ PureFrame

\* convert_yarmtl_to_todoist then extract_yarmtl_metadata: the sideband
\* fields of the task are encoded into a description and the description
\* is parsed
EncodeAndParse ==
  /\ probe.op = "task"
  /\ LET m == [id |-> probe.task.id, deadline |-> probe.task.deadline,
               reminder |-> probe.task.reminder, notes |-> probe.task.notes,
               importance |-> probe.task.importance]
     IN probe' = [op |-> "decoded", m |-> m,
                  back |-> YarmtlMetadata_parse(YarmtlMetadata_encode(m))]
  /\ PureFrame

\* the tasks that differ from t in its id, or in one of its other fields
Variants(t) ==
  {[t EXCEPT !.id = IF t.id = IdB THEN IdA ELSE IdB],
   [t EXCEPT !.text = @ \o T("now")],
   [t EXCEPT !.deadline = IF @ = None THEN Some(46) ELSE None],
   [t EXCEPT !.tags = Append(@, "home")],
   [t EXCEPT !.reminder = IF @ = None THEN Some(43) ELSE None],
   [t EXCEPT !.completed = ~@],
   [t EXCEPT !.notes = IF @ = None THEN Some(<<>>) ELSE None],
   [t EXCEPT !.importance = IF @ = Some(1) THEN Some(2) ELSE Some(1)]}

\* detect_changes: the fingerprint of a task is computed and compared with
\* the fingerprint of another
Fingerprint ==
  /\ probe.op = "task"
  /\ \E u \in Variants(probe.task) :
       probe' = [op |-> "hashed", a |-> probe.task, b |-> u,
                 ha |-> compute_task_hash(probe.task),
                 hb |-> compute_task_hash(u)]
  /\ PureFrame

\* the largest importance looked at (Task.importance is an Option<u8>)
MaxImportance == 6

\* an importance is held
InitImportance ==
  probe \in {[op |-> "importance", importance |-> i] :
               i \in {None} \cup {Some(n) : n \in 0..MaxImportance}}

\* convert_yarmtl_to_todoist: a task of that importance is converted
Translate ==
  /\ probe.op = "importance"
  /\ \E t \in {TaskA, TaskB} :
       probe' = [op |-> "translated", importance |-> probe.importance,
                 priority |-> convert_yarmtl_to_todoist(
                                EmptyMap,
                                [t EXCEPT !.importance = probe.importance]
                              ).priority]
  /\ PureFrame

\* the entries and the stores looked at: every map from some of the local
\* ids IdA, IdB to an entry
InfoInputs ==
  {TaskSyncInfo(i, h) :
     i \in {1, 2}, h \in {compute_task_hash(TaskA), compute_task_hash(TaskB)}}
MappingInputs ==
  UNION {[keys -> InfoInputs] : keys \in SUBSET {IdA, IdB}}

\* a metadata store is held
InitMappings ==
  probe \in {[op |-> "mappings", mappings |-> m] : m \in MappingInputs}

\* SyncMetadata::update_mapping is called
UpdateMapping ==
  /\ probe.op = "mappings"
  /\ \E l \in {IdA, IdB, IdLong}, info \in InfoInputs :
       probe' = [op |-> "updated", mappings |-> probe.mappings, l |-> l,
                 info |-> info,
                 after |-> update_mapping(probe.mappings, l, info)]
  /\ PureFrame

\* SyncMetadata::remove_mapping is called
RemoveMapping ==
  /\ probe.op = "mappings"
  /\ \E l \in {IdA, IdB, IdLong} :
       probe' = [op |-> "removed", mappings |-> probe.mappings, l |-> l,
                 after |-> remove_mapping(probe.mappings, l)]
  /\ PureFrame

\* ------------------------------------------------------- the client
\* the characters of a decimal number
DecDigits == <<"0", "1", "2", "3", "4", "5", "6", "7", "8", "9">>
DigitValue(c) == (CHOOSE i \in 1..Len(DecDigits) : DecDigits[i] = c) - 1

\* str::parse::<u64>: the number the characters spell, None when there are
\* none or one of them is no digit
RECURSIVE parse_u64(_)
parse_u64(v) ==
  IF v = <<>> \/ \E i \in 1..Len(v) : \A j \in 1..Len(DecDigits) :
                                        v[i] # DecDigits[j]
  THEN None
  ELSE IF Len(v) = 1 THEN Some(DigitValue(v[1]))
  ELSE Some(10 * Unwrap(parse_u64(SubSeq(v, 1, Len(v) - 1)))
              + DigitValue(v[Len(v)]))

\* the outcomes of a client operation: Ok with the payload, or a TodoistError
\* with the number and the text it carries
Outcome(kind, n, s) == [kind |-> kind, n |-> n, s |-> s]

\* the bodies of a response: the JSON of the expected type, nothing (as with
\* 204 No Content), or a text that is no JSON
ResponseBodies == {"payload", "", "<html>"}
\* Response::json::<T>: the decoded payload, None when the body does not
\* decode
Decode(body) == IF body = "payload" THEN Some("payload") ELSE None

\* the values of the Retry-After header: none, or its characters
RetryAfterHeaders ==
  {None, Some(<<"3", "0">>), Some(<<"0">>), Some(<<"1", "2", "0">>),
   Some(<<"s", "o", "o", "n">>), Some(<<"-", "5">>), Some(<<>>)}

\* the status codes looked at
Statuses == {200, 201, 204, 299, 301, 400, 401, 403, 404, 429, 500, 503}

\* what the service answers to a request, and the request that got no answer
Responses ==
  [status : Statuses, retry_after : RetryAfterHeaders, body : ResponseBodies]
NoResponse == [status |-> 0, retry_after |-> None, body |-> ""]

\* TodoistClient::make_request: one send; an error of send or of the decoding
\* of the body is a NetworkError (the `?` on reqwest::Error)
make_request(response) ==
  [requests |-> 1,
   result |->
     IF response = NoResponse THEN Outcome("NetworkError", 0, "")
     ELSE IF response.status \in 200..299
     THEN (IF IsSome(Decode(response.body))
           THEN Outcome("Ok", 0, Unwrap(Decode(response.body)))
           ELSE Outcome("NetworkError", 0, ""))
     ELSE IF response.status = 429
     THEN Outcome("RateLimitExceeded",
                  IF IsSome(response.retry_after)
                     /\ IsSome(parse_u64(Unwrap(response.retry_after)))
                  THEN Unwrap(parse_u64(Unwrap(response.retry_after)))
                  ELSE 60, "")
     ELSE IF response.status = 401 THEN Outcome("AuthError", 0, "")
     ELSE IF response.status = 404 THEN Outcome("TaskNotFound", 0, "")
     ELSE Outcome("ApiError", response.status, response.body)]

\* a client operation is about to be called, and the service will answer it
\* with the response, or not at all
InitRequest ==
  probe \in {[op |-> "request", response |-> r] :
               r \in Responses \cup {NoResponse}}

\* a client operation (list_tasks, create_task, update_task, delete_task,
\* close_task, reopen_task, list_projects, create_project) is called
MakeRequest ==
  /\ probe.op = "request"
  /\ LET y == make_request(probe.response)
     IN probe' = [op |-> "answered", response |-> probe.response,
                  requests |-> y.requests, result |-> y.result]
  /\ PureFrame

PureInit ==
  PureStores /\ (InitTask \/ InitImportance \/ InitMappings \/ InitRequest)

PureNext ==
  \/ WriteAndRead
  \/ EncodeAndParse
  \/ Fingerprint
  \/ Translate
  \/ UpdateMapping
  \/ RemoveMapping
  \/ MakeRequest

PureSpec == PureInit /\ [][PureNext]_vars

\* ================================================================ claims
OthersIdle(p) == \A q \in Passes \ {p} : pc[q] = "idle"
Applied(p) == 1..Len(sync[p].log)

\* ---------------------------------------------------------------- C1
\* C1 (idempotence): when a pass has run alone to completion with every
\* action succeeding and a second pass starts with no local or remote change
\* in between, the diff of the second pass is empty.
C1_Idempotence ==
  \A p \in Passes :
    (second = p /\ pc[p] \in {"apply", "done"}) => sync[p].actions = <<>>

\* ---------------------------------------------------------------- C2
\* C2 (mapping bijection): the metadata stores start with no two entries
\* sharing a remote id; after a pass in which every action succeeded, no two
\* entries of the task_mappings it saved have the same todoist_id.
C2_MappingInjective ==
  \A p \in Passes :
    (pc[p] = "done" /\ AllOk(sync[p].log)) => Injective(sync[p].metadata)

\* a pass has finished without an error and saved at least two mappings
C2_Witness ==
  \E p \in Passes :
    /\ pc[p] = "done" /\ AllOk(sync[p].log)
    /\ Len(sync[p].log) >= 2
    /\ Cardinality(DOMAIN sync[p].metadata) >= 2

\* ---------------------------------------------------------------- C3
\* the entry of the metadata store the action a wrote or removed
TouchedKeys(metadata, a) ==
  CASE a.type = "CreateInTodoist" -> {a.task.id}
    [] a.type \in {"UpdateTodoist", "DeleteFromYarmtl"} -> {a.yarmtl_id}
    [] a.type \in {"CreateInYarmtl", "UpdateYarmtl"} ->
         KeysOf(metadata, Unwrap(a.task.id))
    [] OTHER -> {}

\* the metadata file agrees with the in-memory store of pass p on what the
\* last applied action did to it
LastActionOnDisk(p) ==
  LET s == sync[p]
      a == s.actions[Len(s.log)]
  IN \A k \in TouchedKeys(s.metadata, a) :
       IF k \in DOMAIN s.metadata
       THEN /\ k \in DOMAIN metadata_file.task_mappings
            /\ metadata_file.task_mappings[k] = s.metadata[k]
       ELSE k \notin DOMAIN metadata_file.task_mappings

\* C3 (crash durability): when the process stops during the Apply phase
\* after an action that called the service has succeeded, the metadata file
\* already records what that action did to the mappings.
C3_CrashDurability ==
  [][\A p \in Passes :
       ( /\ pc[p] = "apply" /\ pc'[p] = "crashed"
         /\ OthersIdle(p)
         /\ Len(sync[p].log) > 0
         /\ sync[p].log[Len(sync[p].log)].res = "ok"
         /\ sync[p].log[Len(sync[p].log)].calls > 0 )
       => LastActionOnDisk(p)]_vars

\* ---------------------------------------------------------------- C4
\* C4 (rate limit stops the pass): once a remote call of an action answered
\* 429, no later action of that pass issues a remote call.
C4_RateLimitStops ==
  \A p \in Passes : \A i, j \in Applied(p) :
    (i < j /\ sync[p].log[i].res = "rate_limit") => sync[p].log[j].calls = 0

\* ---------------------------------------------------------------- C5
\* C5 (authentication failure is terminal): once a remote call of an action
\* answered 401, no later action of that pass is applied and sync returns
\* the error.
C5_AuthTerminal ==
  \A p \in Passes : \A i \in Applied(p) :
    sync[p].log[i].res = "auth" =>
      /\ Len(sync[p].log) = i
      /\ sync[p].result # "Ok"

\* ---------------------------------------------------------------- C6
ItemErrors == {"not_found", "api_error"}

\* C6 (partial-failure tolerance): a not-found or API error of one action
\* does not end the pass: the actions after it are applied in turn, none is
\* left out when the pass finishes, and sync returns Ok.
C6_PartialFailureTolerance ==
  \A p \in Passes :
    (\E i \in Applied(p) : sync[p].log[i].res \in ItemErrors) =>
      /\ pc[p] \in {"apply", "done"}
      /\ Len(sync[p].log) = sync[p].idx - 1
      /\ pc[p] = "done" =>
           /\ Len(sync[p].log) = Len(sync[p].actions)
           /\ sync[p].result = "Ok"
           /\ metadata_file.content = "json" =>
                metadata_file.last_sync >= sync[p].last_sync

\* a pass finished with Ok although one action failed with an item error and
\* a later action of the same pass issued a remote call and succeeded
C6_Witness ==
  \E p \in Passes : \E i, j \in Applied(p) :
    /\ pc[p] = "done" /\ sync[p].result = "Ok"
    /\ i < j
    /\ sync[p].log[i].res \in ItemErrors
    /\ sync[p].log[j].res = "ok" /\ sync[p].log[j].calls > 0

\* ---------------------------------------------------------------- C7
\* C7 (non-reentrancy): no two passes are between their fetch and their
\* persist at the same time.
C7_NonReentrant ==
  \A p, q \in Passes : (pc[p] = "apply" /\ pc[q] = "apply") => p = q

\* ---------------------------------------------------------------- C8
\* C8 (delete removes the mapping): right after a DeleteFromTodoist succeeded
\* no entry maps to the deleted remote id; right after a DeleteFromYarmtl
\* succeeded there is no entry for the deleted local id.
C8_DeleteRemovesMapping ==
  \A p \in Passes :
    (pc[p] = "apply" /\ Len(sync[p].log) > 0
       /\ sync[p].log[Len(sync[p].log)].res = "ok") =>
      LET a == sync[p].actions[Len(sync[p].log)]
      IN /\ a.type = "DeleteFromTodoist" =>
              KeysOf(sync[p].metadata, a.todoist_id) = {}
         /\ a.type = "DeleteFromYarmtl" =>
              a.yarmtl_id \notin DOMAIN sync[p].metadata

\* ---------------------------------------------------------------- C9
\* C9 (no silent merge): a pass does not apply two UpdateYarmtl actions,
\* coming from two distinct remote tasks, to the same local task.
C9_NoSilentMerge ==
  \A p \in Passes : \A i, j \in Applied(p) :
    ( /\ i < j
      /\ sync[p].actions[i].type = "UpdateYarmtl"
      /\ sync[p].actions[j].type = "UpdateYarmtl"
      /\ sync[p].log[i].res = "ok" /\ sync[p].log[j].res = "ok"
      /\ sync[p].actions[i].todoist_id # sync[p].actions[j].todoist_id )
    => TargetOf(sync[p].actions[i]) # TargetOf(sync[p].actions[j])

\* ---------------------------------------------------------------- C10
\* pass p found one incomplete local task, no mapping and no remote task
ScenarioA(p) ==
  /\ pc[p] \in {"apply", "done"}
  /\ Len(sync[p].pre.local_tasks) = 1
  /\ ~sync[p].pre.local_tasks[1].completed
  /\ DOMAIN sync[p].pre.metadata = {}
  /\ DOMAIN sync[p].pre.remote = {}

\* the remote tasks whose sideband metadata encodes the local id
Encoding(id) ==
  {r \in DOMAIN remote :
     /\ IsSome(extract_yarmtl_metadata(remote[r]))
     /\ Unwrap(extract_yarmtl_metadata(remote[r])).id = id}

\* C10 (scenario A): a pass that finds one incomplete local task, an empty
\* metadata store and no remote task emits exactly one action,
\* CreateInTodoist of that task; when it has run alone and the action
\* succeeded, the metadata store then has exactly one entry, keyed by the
\* task's id, and the remote holds exactly one task, whose sideband metadata
\* encodes that id.
C10_ScenarioA ==
  \A p \in Passes :
    ScenarioA(p) =>
      LET t == sync[p].pre.local_tasks[1]
      IN /\ sync[p].actions = <<CreateInTodoist(t)>>
         /\ (pc[p] = "done" /\ settled /\ OthersIdle(p)) =>
              /\ DOMAIN metadata_file.task_mappings = {t.id}
              /\ Cardinality(DOMAIN remote) = 1
              /\ Encoding(t.id) = DOMAIN remote
              /\ metadata_file.task_mappings[t.id].todoist_id \in DOMAIN remote

\* scenario A has run to its end
C10_Witness ==
  \E p \in Passes :
    /\ ScenarioA(p) /\ pc[p] = "done" /\ settled /\ OthersIdle(p)
    /\ sync[p].report.created_in_todoist = 1

\* ================================================== the diff of a pass
\* pass p has fetched and diffed, and its TodoistSync is still there
Diffed(p) == pc[p] \in {"apply", "done"}

\* the positions at which the diff of pass p holds action a
Emitted(p, a) == {k \in 1..Len(sync[p].actions) : sync[p].actions[k] = a}

\* the positions, in the diff of pass p, of the actions the local scan can
\* emit for local task t
LocalActionsFor(p, t) ==
  Emitted(p, CreateInTodoist(t)) \cup Emitted(p, UpdateTodoist(t.id, t))
    \cup Emitted(p, DeleteFromYarmtl(t.id))

\* the local tasks of pass p equal to the i-th, and those with its id (the
\* list can hold a task more than once)
SameTask(p, i) ==
  {j \in 1..Len(sync[p].pre.local_tasks) :
     sync[p].pre.local_tasks[j] = sync[p].pre.local_tasks[i]}
SameId(p, i) ==
  {j \in 1..Len(sync[p].pre.local_tasks) :
     sync[p].pre.local_tasks[j].id = sync[p].pre.local_tasks[i].id}

\* the ids of the remote tasks pass p fetched
FetchedIds(p) == TodoistIdsOf(sync[p].todoist_tasks)

\* the i-th local task of pass p was mapped when the pass began, and the
\* remote task it is mapped to was fetched
MappedPresent(p, i) ==
  LET t == sync[p].pre.local_tasks[i]
  IN /\ t.id \in DOMAIN sync[p].pre.metadata
     /\ sync[p].pre.metadata[t.id].todoist_id \in FetchedIds(p)

\* the local fingerprint of that task differs from the stored one
LocalChanged(p, i) ==
  LET t == sync[p].pre.local_tasks[i]
  IN sync[p].pre.metadata[t.id].last_sync_hash # compute_task_hash(t)

\* ---------------------------------------------------------------- C11
\* C11 (update rule): for a local task that is mapped to a fetched remote
\* task the diff holds exactly one action, UpdateTodoist of that task, when
\* its fingerprint differs from the stored one, and no action when the two
\* are equal (one action for each time the list holds the task).
C11_UpdateRule ==
  \A p \in Passes : Diffed(p) =>
    \A i \in 1..Len(sync[p].pre.local_tasks) : MappedPresent(p, i) =>
      LET t == sync[p].pre.local_tasks[i]
          ks == LocalActionsFor(p, t)
      IN IF LocalChanged(p, i)
         THEN /\ ks = Emitted(p, UpdateTodoist(t.id, t))
              /\ Cardinality(ks) = Cardinality(SameTask(p, i))
         ELSE ks = {}

\* one pass found a mapped task changed and emitted its update, and a pass
\* found a mapped task unchanged
C11_Witness ==
  /\ \E p \in Passes : Diffed(p) /\
       \E i \in 1..Len(sync[p].pre.local_tasks) :
         /\ MappedPresent(p, i) /\ LocalChanged(p, i)
         /\ LocalActionsFor(p, sync[p].pre.local_tasks[i]) # {}
  /\ \E p \in Passes : Diffed(p) /\
       \E i \in 1..Len(sync[p].pre.local_tasks) :
         MappedPresent(p, i) /\ ~LocalChanged(p, i)

\* ---------------------------------------------------------------- C12
\* pass p began with one local task, synced before, whose deadline alone has
\* changed since, and fetched the remote task it is mapped to and no other
ScenarioB(p) ==
  /\ Diffed(p)
  /\ Len(sync[p].pre.local_tasks) = 1
  /\ DOMAIN sync[p].pre.metadata = {sync[p].pre.local_tasks[1].id}
  /\ Len(sync[p].todoist_tasks) = 1
  /\ MappedPresent(p, 1)
  /\ LET t == sync[p].pre.local_tasks[1]
         h == sync[p].pre.metadata[t.id].last_sync_hash
     IN /\ h.deadline # t.deadline
        /\ h = [compute_task_hash(t) EXCEPT !.deadline = h.deadline]

\* C12 (scenario B): such a pass emits exactly one action, UpdateTodoist of
\* the task; when the pass has finished with the action successful, the
\* last_sync_hash of the mapping is the fingerprint of the changed task.
C12_ScenarioB ==
  \A p \in Passes : ScenarioB(p) =>
    LET t == sync[p].pre.local_tasks[1]
    IN /\ sync[p].actions = <<UpdateTodoist(t.id, t)>>
       /\ (pc[p] = "done" /\ AllOk(sync[p].log)) =>
            /\ t.id \in DOMAIN sync[p].metadata
            /\ sync[p].metadata[t.id].last_sync_hash = compute_task_hash(t)
            /\ sync[p].metadata[t.id].todoist_id
                 = sync[p].pre.metadata[t.id].todoist_id

\* scenario B has run to its end and the update was sent
C12_Witness ==
  \E p \in Passes :
    /\ ScenarioB(p) /\ pc[p] = "done" /\ AllOk(sync[p].log)
    /\ sync[p].report.updated_in_todoist = 1

\* ---------------------------------------------------------------- C13
\* the i-th local task of pass p was mapped when the pass began, and the
\* remote task it is mapped to was not fetched
MappedAbsent(p, i) ==
  LET t == sync[p].pre.local_tasks[i]
  IN /\ t.id \in DOMAIN sync[p].pre.metadata
     /\ sync[p].pre.metadata[t.id].todoist_id \notin FetchedIds(p)

\* C13, the diff (remote deletion wins): for a local task mapped to a remote
\* id that was not fetched the diff holds exactly one action of the local
\* scan, DeleteFromYarmtl of that task (one for each task with that id).
C13_RemoteDeletionDiff ==
  \A p \in Passes : Diffed(p) =>
    \A i \in 1..Len(sync[p].pre.local_tasks) : MappedAbsent(p, i) =>
      LET t == sync[p].pre.local_tasks[i]
          ks == LocalActionsFor(p, t)
      IN /\ ks = Emitted(p, DeleteFromYarmtl(t.id))
         /\ Cardinality(ks) = Cardinality(SameId(p, i))

\* C13 (remote deletion wins, scenario C): for a local task mapped to a
\* remote id that was not fetched the pass emits exactly one action,
\* DeleteFromYarmtl; when the pass has finished with every action successful
\* the task is gone from the local list and it has no mapping.
C13_RemoteDeletionWins ==
  /\ C13_RemoteDeletionDiff
  /\ \A p \in Passes : (pc[p] = "done" /\ AllOk(sync[p].log)) =>
       \A i \in 1..Len(sync[p].pre.local_tasks) : MappedAbsent(p, i) =>
         LET t == sync[p].pre.local_tasks[i]
         IN /\ t.id \notin IdsOf(sync[p].local_tasks)
            /\ t.id \notin DOMAIN sync[p].metadata

\* ---------------------------------------------------------------- C14
\* the i-th local task of pass p had no mapping when the pass began
Unmapped(p, i) ==
  sync[p].pre.local_tasks[i].id \notin DOMAIN sync[p].pre.metadata

\* C14 (scenario D): a completed local task with no deadline and no metadata
\* entry gives rise to no action of the local scan, and no create_task call
\* is made for it: the pass leaves it without a mapping.
C14_ScenarioD ==
  \A p \in Passes : Diffed(p) =>
    \A i \in 1..Len(sync[p].pre.local_tasks) :
      LET t == sync[p].pre.local_tasks[i]
      IN (Unmapped(p, i) /\ t.completed /\ ~IsSome(t.deadline)) =>
           LocalActionsFor(p, t) = {}

\* a pass that began with such a task has finished
C14_Witness ==
  \E p \in Passes : pc[p] = "done" /\
    \E i \in 1..Len(sync[p].pre.local_tasks) :
      /\ Unmapped(p, i)
      /\ sync[p].pre.local_tasks[i].completed
      /\ ~IsSome(sync[p].pre.local_tasks[i].deadline)

\* ---------------------------------------------------------------- C15
\* the i-th local task of pass p is completed, has a deadline and had no
\* mapping when the pass began
CompletedDated(p, i) ==
  /\ Unmapped(p, i)
  /\ sync[p].pre.local_tasks[i].completed
  /\ IsSome(sync[p].pre.local_tasks[i].deadline)

\* C15 as stated (trailing window): an unmapped completed task with a
\* deadline is pushed only when its deadline lies in the 30 days that end
\* today, and gives rise to no action otherwise.
C15_TrailingWindow ==
  \A p \in Passes : Diffed(p) =>
    \A i \in 1..Len(sync[p].pre.local_tasks) : CompletedDated(p, i) =>
      LET t == sync[p].pre.local_tasks[i]
          d == Unwrap(t.deadline)
      IN LocalActionsFor(p, t) # {}
           => (Today - WindowDays <= d /\ d <= Today)

\* C15 amended (window open to the future): an unmapped completed task with
\* a deadline is pushed, by exactly one CreateInTodoist, when its deadline is
\* not before today minus 30 days (deadlines after today included), and
\* gives rise to no action when its deadline is before that day.
C15_CompletedWindow ==
  \A p \in Passes : Diffed(p) =>
    \A i \in 1..Len(sync[p].pre.local_tasks) : CompletedDated(p, i) =>
      LET t == sync[p].pre.local_tasks[i]
          d == Unwrap(t.deadline)
          ks == LocalActionsFor(p, t)
      IN IF d >= Today - WindowDays
         THEN /\ ks = Emitted(p, CreateInTodoist(t))
              /\ Cardinality(ks) = Cardinality(SameTask(p, i))
         ELSE ks = {}

\* a pass met a completed task with the deadline thirty_days_ago and one
\* with the deadline the day before
C15_Witness ==
  /\ \E p \in Passes : Diffed(p) /\
       \E i, j \in 1..Len(sync[p].pre.local_tasks) :
         /\ CompletedDated(p, i) /\ CompletedDated(p, j)
         /\ Unwrap(sync[p].pre.local_tasks[i].deadline) = Today - WindowDays
         /\ Unwrap(sync[p].pre.local_tasks[j].deadline) < Today - WindowDays

\* ---------------------------------------------------------------- C16
\* the remote task an action of the remote loop is about
RemoteTarget(a) ==
  IF a.type = "CreateInYarmtl" THEN Unwrap(a.task.id) ELSE a.todoist_id

\* the positions, in the diff of pass p, of the actions the remote loop
\* emitted for the remote task with this id
RemoteActionsFor(p, todoist_id) ==
  {k \in 1..Len(sync[p].actions) :
     /\ sync[p].actions[k].type
          \in {"CreateInYarmtl", "UpdateYarmtl", "DeleteFromTodoist"}
     /\ RemoteTarget(sync[p].actions[k]) = todoist_id}

\* the j-th fetched task of pass p is the todoist_id of no metadata entry
UnmappedRemote(p, j) ==
  KeysOf(sync[p].pre.metadata, Unwrap(sync[p].todoist_tasks[j].id)) = {}

\* the description of the j-th fetched task encodes the id of a local task
SidebandMatches(p, j) ==
  LET r == sync[p].todoist_tasks[j]
  IN /\ IsSome(r.description)
     /\ IsSome(YarmtlMetadata_parse(Unwrap(r.description)))
     /\ Unwrap(YarmtlMetadata_parse(Unwrap(r.description))).id
          \in IdsOf(sync[p].pre.local_tasks)

\* C16 (unmapped remote tasks): for a fetched remote task whose id is the
\* todoist_id of no metadata entry the diff holds exactly one action:
\* UpdateYarmtl when its sideband metadata encodes the id of an existing
\* local task, CreateInYarmtl when it encodes another id or nothing.
C16_UnmappedRemote ==
  \A p \in Passes : Diffed(p) =>
    \A j \in 1..Len(sync[p].todoist_tasks) : UnmappedRemote(p, j) =>
      LET r == sync[p].todoist_tasks[j]
          ks == RemoteActionsFor(p, Unwrap(r.id))
      IN /\ Cardinality(ks) = 1
         /\ \A k \in ks :
              sync[p].actions[k] =
                IF SidebandMatches(p, j) THEN UpdateYarmtl(Unwrap(r.id), r)
                ELSE CreateInYarmtl(r)

\* a pass fetched an unmapped remote task whose sideband id is the id of a
\* local task, and one whose description holds no sideband metadata
C16_Witness ==
  \E p \in Passes : Diffed(p) /\
    \E i, j \in 1..Len(sync[p].todoist_tasks) :
      /\ UnmappedRemote(p, i) /\ SidebandMatches(p, i)
      /\ UnmappedRemote(p, j)
      /\ ~IsSome(extract_yarmtl_metadata(sync[p].todoist_tasks[j]))

\* ---------------------------------------------------------------- C17
\* the j-th fetched task of pass p is mapped, and the local task it is
\* mapped to is absent from the local list
LocalVanished(p, j) ==
  LET ks == KeysOf(sync[p].pre.metadata, Unwrap(sync[p].todoist_tasks[j].id))
  IN ks # {} /\ ks \cap IdsOf(sync[p].pre.local_tasks) = {}

\* the positions of the DeleteFromTodoist actions for this remote id
DeletesFor(p, todoist_id) ==
  {k \in 1..Len(sync[p].actions) :
     sync[p].actions[k] = DeleteFromTodoist(todoist_id)}

\* C17 (local deletion propagates): for a fetched remote task mapped to a
\* local id that is absent from the local list the diff holds exactly one
\* DeleteFromTodoist of that remote id; for a fetched remote task whose
\* mapped local task is present it holds none.
C17_LocalDeletionPropagates ==
  \A p \in Passes : Diffed(p) =>
    \A j \in 1..Len(sync[p].todoist_tasks) : ~UnmappedRemote(p, j) =>
      LET todoist_id == Unwrap(sync[p].todoist_tasks[j].id)
      IN IF LocalVanished(p, j)
         THEN Cardinality(DeletesFor(p, todoist_id)) = 1
         ELSE DeletesFor(p, todoist_id) = {}

\* a pass fetched a mapped remote task whose local task had been deleted
C17_Witness ==
  \E p \in Passes : Diffed(p) /\
    \E j \in 1..Len(sync[p].todoist_tasks) :
      /\ LocalVanished(p, j)
      /\ DeletesFor(p, Unwrap(sync[p].todoist_tasks[j].id)) # {}

\* ---------------------------------------------------------------- C18
\* the fetched task of pass p with this remote id
FetchedTask(p, todoist_id) ==
  CHOOSE r \in {sync[p].todoist_tasks[j] : j \in 1..Len(sync[p].todoist_tasks)} :
    Unwrap(r.id) = todoist_id

\* the remote task the i-th local task is mapped to no longer has the
\* content the stored fingerprint was taken from
RemoteChanged(p, i) ==
  LET t == sync[p].pre.local_tasks[i]
      info == sync[p].pre.metadata[t.id]
      r == FetchedTask(p, info.todoist_id)
  IN compute_task_hash(convert_todoist_to_yarmtl(EmptyMap, r, 0))
       # info.last_sync_hash

\* the i-th local task and its remote task both changed since the last sync
DualChanged(p, i) ==
  MappedPresent(p, i) /\ LocalChanged(p, i) /\ RemoteChanged(p, i)

\* the diff half of C18: for a pair changed on both sides the diff holds
\* exactly one action for the local task, UpdateTodoist, and no UpdateYarmtl
\* for the remote task of the pair.
C18_LocalWinsDiff ==
  \A p \in Passes : Diffed(p) =>
    \A i \in 1..Len(sync[p].pre.local_tasks) : DualChanged(p, i) =>
      LET t == sync[p].pre.local_tasks[i]
          todoist_id == sync[p].pre.metadata[t.id].todoist_id
      IN /\ LocalActionsFor(p, t) = Emitted(p, UpdateTodoist(t.id, t))
         /\ Cardinality(LocalActionsFor(p, t)) = Cardinality(SameTask(p, i))
         /\ \A k \in RemoteActionsFor(p, todoist_id) :
              sync[p].actions[k].type # "UpdateYarmtl"

\* C18 (local wins on dual change): when a mapped pair changed on both
\* sides since the last sync, the pass emits UpdateTodoist for the pair and
\* no UpdateYarmtl for it, and after a pass that ran alone and whose actions
\* all succeeded the remote task carries the local text and the local task
\* is the one the pass began with.
C18_LocalWins ==
  /\ C18_LocalWinsDiff
  /\ \A p \in Passes :
       (pc[p] = "done" /\ settled /\ OthersIdle(p)) =>
         \A i \in 1..Len(sync[p].pre.local_tasks) : DualChanged(p, i) =>
           LET t == sync[p].pre.local_tasks[i]
               todoist_id == sync[p].pre.metadata[t.id].todoist_id
               now == load_local_tasks(tasks_file, uuid)
           IN /\ todoist_id \in DOMAIN remote
              /\ remote[todoist_id].content = t.text
              /\ \E j \in 1..Len(now) : now[j] = t

\* a pass that ran alone has ended, every action succeeded, and it began
\* with a pair changed on both sides
C18_Seen ==
  \E p \in Passes :
    /\ pc[p] = "done" /\ settled /\ OthersIdle(p)
    /\ \E i \in 1..Len(sync[p].pre.local_tasks) : DualChanged(p, i)

\* ---------------------------------------------------------------- C19
\* the step that takes pass p through the end of sync
PersistStep(p) == pc[p] = "apply" /\ pc'[p] = "done"

\* an action pass p applied changed its in-memory list of local tasks
ListMutated(p) == \E k \in 1..Len(sync[p].log) : sync[p].log[k].mutated

LastSent(p) == sync[p].log[Len(sync[p].log)].sent

\* the positions, among these requests, of the close and reopen calls
Toggles(sent) ==
  {i \in 1..Len(sent) : sent[i].op \in {"close_task", "reopen_task"}}

\* C20 (completion is an action, not a field): every task sent by
\* create_task or update_task has is_completed unset; a close or reopen
\* call is never issued before the create or update call of its action; a
\* CreateInTodoist of a completed task whose create call succeeded is
\* followed by one close call on the new remote id; an UpdateTodoist whose
\* update call succeeded is followed by one close call (task completed) or
\* one reopen call (task incomplete) on the mapped remote id.
C20_CompletionIsAnAction ==
  \A p \in Passes : (Diffed(p) /\ Len(sync[p].log) > 0) =>
    LET k == Len(sync[p].log)
        e == sync[p].log[k]
        a == sync[p].actions[k]
        sent == e.sent
        n == Len(sent)
    IN /\ \A i \in 1..n : sent[i].op \in {"create_task", "update_task"} =>
            /\ IsSome(sent[i].body)
            /\ ~IsSome(Unwrap(sent[i].body).is_completed)
       /\ \A i \in Toggles(sent) :
            /\ i = n /\ i > 1
            /\ sent[i - 1].op = IF a.type = "CreateInTodoist"
                                THEN "create_task" ELSE "update_task"
       /\ (a.type = "CreateInTodoist" /\ e.res = "ok") =>
            IF a.task.completed
            THEN /\ Toggles(sent) = {n}
                 /\ sent[n] = Call("close_task",
                                   get_todoist_id(sync[p].metadata, a.task.id),
                                   None)
            ELSE Toggles(sent) = {}
       /\ (a.type = "UpdateTodoist" /\ e.res = "ok" /\ n > 0) =>
            /\ Toggles(sent) = {n}
            /\ sent[n] = Call(IF a.task.completed THEN "close_task"
                              ELSE "reopen_task",
                              get_todoist_id(sync[p].metadata, a.yarmtl_id),
                              None)
            /\ sent[n - 1].id = sent[n].id
       /\ a.type \notin {"CreateInTodoist", "UpdateTodoist"} =>
            Toggles(sent) = {}

\* a pass has just applied a CreateInTodoist of a completed task: its
\* requests end with create_task, close_task
C20_CreateSeen ==
  \E p \in Passes :
    /\ Diffed(p) /\ Len(sync[p].log) > 0
    /\ sync[p].actions[Len(sync[p].log)].type = "CreateInTodoist"
    /\ sync[p].actions[Len(sync[p].log)].task.completed
    /\ Len(LastSent(p)) >= 2
    /\ LastSent(p)[Len(LastSent(p))].op = "close_task"

\* a pass has just applied an UpdateTodoist of a completed task: its
\* requests end with update_task, close_task
C20_Witness ==
  \E p \in Passes :
    /\ Diffed(p) /\ Len(sync[p].log) > 0
    /\ sync[p].actions[Len(sync[p].log)].type = "UpdateTodoist"
    /\ sync[p].actions[Len(sync[p].log)].task.completed
    /\ Len(LastSent(p)) >= 2
    /\ LastSent(p)[Len(LastSent(p)) - 1].op = "update_task"
    /\ LastSent(p)[Len(LastSent(p))].op = "close_task"

\* ---------------------------------------------------------------- C21
\* the actions the scan of the local list emits, and those of the scan of
\* the fetched list
LocalTypes == {"CreateInTodoist", "UpdateTodoist", "DeleteFromYarmtl"}
RemoteTypes == {"CreateInYarmtl", "UpdateYarmtl", "DeleteFromTodoist"}

\* the local id an action of the local scan is about
LocalIdOf(a) == IF a.type = "CreateInTodoist" THEN a.task.id ELSE a.yarmtl_id

\* the remote id an action of the remote scan is about
RemoteIdOf(a) ==
  IF a.type = "CreateInYarmtl" THEN Unwrap(a.task.id) ELSE a.todoist_id

\* C21 (action order): in the diff of a pass every action of the local scan
\* comes before every action of the remote scan; the actions of the local
\* scan follow the order of the local list and those of the remote scan the
\* order of the fetched list; the actions applied so far are the first ones
\* of the diff, one log entry each, in the order of the diff, and the next
\* action to apply is the one behind them.
C21_ActionOrder ==
  \A p \in Passes : Diffed(p) =>
    LET acts == sync[p].actions
        local == sync[p].pre.local_tasks
        fetched == sync[p].todoist_tasks
    IN /\ \A i, j \in 1..Len(acts) :
            i < j =>
              /\ acts[i].type \in RemoteTypes => acts[j].type \in RemoteTypes
              /\ acts[i].type \in LocalTypes /\ acts[j].type \in LocalTypes =>
                   \E m, n \in 1..Len(local) :
                     /\ m < n
                     /\ local[m].id = LocalIdOf(acts[i])
                     /\ local[n].id = LocalIdOf(acts[j])
              /\ acts[i].type \in RemoteTypes /\ acts[j].type \in RemoteTypes =>
                   \E m, n \in 1..Len(fetched) :
                     /\ m < n
                     /\ fetched[m].id = Some(RemoteIdOf(acts[i]))
                     /\ fetched[n].id = Some(RemoteIdOf(acts[j]))
       /\ Len(sync[p].log) < sync[p].idx
       /\ Len(sync[p].log) <= Len(acts)
       /\ pc[p] = "apply" => sync[p].idx = Len(sync[p].log) + 1
       /\ \A k \in Applied(p) : sync[p].log[k].type = acts[k].type

\* a pass has applied all of a diff that holds two actions of the local
\* scan and, behind them, an action of the remote scan
C21_Witness ==
  \E p \in Passes :
    /\ pc[p] = "done"
    /\ Len(sync[p].actions) = 3
    /\ Len(sync[p].log) = 3
    /\ sync[p].actions[1].type \in LocalTypes
    /\ sync[p].actions[2].type \in LocalTypes
    /\ sync[p].actions[3].type \in RemoteTypes

\* ---------------------------------------------------------------- C22
\* C22 (identity stability): a task of the local list of a pass keeps its
\* id when it is written to its store line with to_markdown and the line is
\* read back as the store loader reads it.
C22_IdentityStable ==
  \A p \in Passes : Diffed(p) =>
    \A i \in 1..Len(sync[p].local_tasks) :
      LET t == sync[p].local_tasks[i]
      IN load_local_tasks(save_local_tasks(<<t>>), uuid)[1].id = t.id

\* ---------------------------------------------------------------- C23
\* C23 (task round trip): a task that was written with to_markdown and read
\* back as the store loader reads a line is equal to the task written, in
\* id, text, deadline, tags, reminder, notes, importance and completed.
C23_TaskRoundTrip ==
  probe.op = "reloaded" => probe.back = probe.task

\* ---------------------------------------------------------------- C24
\* C24 (sideband round trip): parsing the encoding of a sideband record
\* returns a record with the same id, deadline, reminder, notes and
\* importance.
C24_SidebandRoundTrip ==
  probe.op = "decoded" => probe.back = Some(probe.m)

\* ---------------------------------------------------------------- C25
\* the two tasks agree in the seven fields the fingerprint is made of
SameContent(a, b) ==
  /\ a.text = b.text
  /\ a.deadline = b.deadline
  /\ a.tags = b.tags
  /\ a.reminder = b.reminder
  /\ a.completed = b.completed
  /\ a.notes = b.notes
  /\ a.importance = b.importance

C25_NotesSeen ==
  /\ probe.op = "hashed"
  /\ probe.a.notes # probe.b.notes
  /\ probe.ha # probe.hb

\* ---------------------------------------------------------------- C26
\* the applied actions of pass p that push a local task
Pushes(p) ==
  {k \in Applied(p) :
     sync[p].actions[k].type \in {"CreateInTodoist", "UpdateTodoist"}}

\* the tasks sent by the create_task and update_task requests of log entry e
Bodies(e) ==
  {Unwrap(e.sent[i].body) :
     i \in {j \in 1..Len(e.sent) :
              e.sent[j].op \in {"create_task", "update_task"}}}

\* the create_project requests of log entry e
ProjectCalls(e) == {i \in 1..Len(e.sent) : e.sent[i].op = "create_project"}

\* the pushes of pass p before the k-th action that had the project of name
\* in hand: their task has name as first tag and was sent with a project
CachedBy(p, k, name) ==
  {j \in Pushes(p) :
     /\ j < k
     /\ sync[p].actions[j].task.tags # <<>>
     /\ sync[p].actions[j].task.tags[1] = name
     /\ \E b \in Bodies(sync[p].log[j]) : b.project_id # None}

\* C26 (tag translation): a pushed task without tags is sent without project
\* and without labels and no project is created for it; a pushed task with
\* tags is sent with its tags after the first as labels, in order, and
\* create_project is called for its first tag exactly when the name is
\* neither among the projects the pass fetched nor cached by an earlier push
\* of the pass; when the name is in the cache the task is sent with the
\* cached project; a project a task is sent with is the cached project of
\* its first tag.
C26_TagTranslation ==
  \A p \in Passes : Diffed(p) =>
    \A k \in Pushes(p) :
      LET t == sync[p].actions[k].task
          e == sync[p].log[k]
          cache == sync[p].projects
          known == /\ t.tags # <<>>
                   /\ \/ t.tags[1] \in DOMAIN sync[p].pre.projects
                      \/ CachedBy(p, k, t.tags[1]) # {}
      IN e.sent # <<>> =>
           /\ Cardinality(ProjectCalls(e)) <= 1
           /\ ProjectCalls(e) # {} <=> (t.tags # <<>> /\ ~known)
           /\ \A b \in Bodies(e) :
                /\ b.labels = IF Len(t.tags) > 1 THEN Some(Tail(t.tags))
                              ELSE None
                /\ t.tags = <<>> => b.project_id = None
                /\ known => b.project_id # None
                /\ b.project_id # None =>
                     /\ t.tags # <<>>
                     /\ t.tags[1] \in DOMAIN cache
                     /\ b.project_id = Some(cache[t.tags[1]])

\* a pass has pushed two tasks with the same first tag: the first push
\* created the project, the second was sent with it and created none
C26_Witness ==
  \E p \in Passes :
    \E j, k \in Pushes(p) :
      /\ j < k
      /\ sync[p].actions[j].task.tags # <<>>
      /\ sync[p].actions[k].task.tags # <<>>
      /\ sync[p].actions[j].task.tags[1] = sync[p].actions[k].task.tags[1]
      /\ Len(sync[p].actions[j].task.tags) > 1
      /\ ProjectCalls(sync[p].log[j]) # {}
      /\ ProjectCalls(sync[p].log[k]) = {}
      /\ \E b \in Bodies(sync[p].log[k]) : b.project_id # None

\* ---------------------------------------------------------------- C27
\* C27 (importance translation): importance 1 is sent as priority 4, 2 as 3,
\* 3 as 2 and every other importance as 1; a task without importance is
\* sent without priority.
C27_ImportanceTranslation ==
  probe.op = "translated" =>
    probe.priority =
      IF probe.importance = None THEN None
      ELSE IF probe.importance = Some(1) THEN Some(4)
      ELSE IF probe.importance = Some(2) THEN Some(3)
      ELSE IF probe.importance = Some(3) THEN Some(2)
      ELSE Some(1)

\* a task of importance 3 has been converted
C27_Witness ==
  /\ probe.op = "translated"
  /\ probe.importance = Some(3)
  /\ probe.priority = Some(2)

\* ---------------------------------------------------------------- C30
\* C30 (metadata store operations): after update_mapping(l, info) the store
\* returns the remote id and the fingerprint of info for l, and l for the
\* remote id of info when no other entry holds that remote id; after
\* remove_mapping(l) it returns no remote id for l; both leave the entries
\* of the other local ids as they were, and add or remove no other key.
C30_StoreOperations ==
  /\ probe.op = "updated" =>
       /\ get_todoist_id(probe.after, probe.l) = Some(probe.info.todoist_id)
       /\ get_hash(probe.after, probe.l) = Some(probe.info.last_sync_hash)
       /\ KeysOf(probe.after, probe.info.todoist_id) = {probe.l} =>
            get_yarmtl_id(probe.after, probe.info.todoist_id) = Some(probe.l)
       /\ DOMAIN probe.after = DOMAIN probe.mappings \cup {probe.l}
       /\ \A k \in DOMAIN probe.mappings \ {probe.l} :
            probe.after[k] = probe.mappings[k]
  /\ probe.op = "removed" =>
       /\ get_todoist_id(probe.after, probe.l) = None
       /\ get_hash(probe.after, probe.l) = None
       /\ DOMAIN probe.after = DOMAIN probe.mappings \ {probe.l}
       /\ \A k \in DOMAIN probe.mappings \ {probe.l} :
            probe.after[k] = probe.mappings[k]

\* update_mapping has replaced the entry of a local id in a store that holds
\* an entry of another local id
C30_Witness ==
  /\ probe.op = "updated"
  /\ probe.l \in DOMAIN probe.mappings
  /\ probe.mappings[probe.l] # probe.info
  /\ DOMAIN probe.mappings \ {probe.l} # {}

\* remove_mapping has removed an entry and left another
C30_RemoveSeen ==
  /\ probe.op = "removed"
  /\ probe.l \in DOMAIN probe.mappings
  /\ DOMAIN probe.after # {}

\* ---------------------------------------------------------------- C28
\* C28 (metadata load): a pass whose metadata file does not exist starts
\* with an empty store, and a pass whose file holds a store starts with that
\* store; a pass whose file exists and cannot be deserialized does not get
\* past TodoistSync::new: it fails, and the step changes neither the
\* metadata file nor tasks.md nor the remote tasks.
C28_MetadataLoad ==
  [][\A p \in Passes :
       pc[p] = "new" /\ pc'[p] # "new" =>
         /\ metadata_file.content = "absent" /\ pc'[p] = "apply" =>
              sync'[p].metadata = EmptyMap
         /\ metadata_file.content = "json" /\ pc'[p] = "apply" =>
              sync'[p].metadata = metadata_file.task_mappings
         /\ metadata_file.content \in Unreadable =>
              /\ pc'[p] \in {"failed", "crashed"}
              /\ sync'[p].actions = <<>>
              /\ metadata_file' = metadata_file
              /\ tasks_file' = tasks_file
              /\ remote' = remote]_vars

\* a pass has failed in TodoistSync::new on a file that cannot be
\* deserialized (no remote call has failed), and the file is as it was
C28_Witness ==
  \E p \in Passes :
    /\ pc[p] = "failed"
    /\ faults = 0
    /\ metadata_file.content \in Unreadable

\* a pass has run on a store without metadata file and has written one
C28_AbsentSeen ==
  \E p \in Passes :
    /\ pc[p] = "done"
    /\ sync[p].pre.metadata = EmptyMap
    /\ sync[p].last_sync = 1
    /\ metadata_file.content = "json"
    /\ tasks_file = <<>>

\* ---------------------------------------------------------------- C29
\* C29 (atomic metadata save): the metadata file never holds a part of a
\* content: when the process stops during SyncMetadata::save the file holds
\* what it held before or the whole new content.
C29_AtomicSave == metadata_file.content # "truncated"

\* ---------------------------------------------------------------- C31
\* C31: every client operation issues exactly one request and maps the
\* response it gets: a 2xx status to the decoded payload, 429 to
\* RateLimitExceeded with the value of the Retry-After header (60 when the
\* header is missing or unparsable), 401 to AuthError, 404 to TaskNotFound,
\* every other status to ApiError with that status and the body.
C31_ErrorTaxonomy ==
  probe.op = "answered" /\ probe.response # NoResponse =>
    LET r == probe.response
        h == r.retry_after
    IN /\ probe.requests = 1
       /\ probe.result =
            IF r.status \in 200..299 THEN Outcome("Ok", 0, "payload")
            ELSE IF r.status = 429
            THEN Outcome("RateLimitExceeded",
                         IF h = Some(<<"3", "0">>) THEN 30
                         ELSE IF h = Some(<<"0">>) THEN 0
                         ELSE IF h = Some(<<"1", "2", "0">>) THEN 120
                         ELSE 60, "")
            ELSE IF r.status = 401 THEN Outcome("AuthError", 0, "")
            ELSE IF r.status = 404 THEN Outcome("TaskNotFound", 0, "")
            ELSE Outcome("ApiError", r.status, r.body)

\* ---------------------------------------------------------------- C32
\* the counter of the report that belongs to the actions of a type
CounterOf(report, type) ==
  CASE type = "CreateInTodoist" -> report.created_in_todoist
    [] type = "CreateInYarmtl" -> report.created_in_yarmtl
    [] type = "UpdateTodoist" -> report.updated_in_todoist
    [] type = "UpdateYarmtl" -> report.updated_in_yarmtl
    [] type = "DeleteFromTodoist" -> report.deleted_in_todoist
    [] type = "DeleteFromYarmtl" -> report.deleted_in_yarmtl
ActionTypes ==
  {"CreateInTodoist", "CreateInYarmtl", "UpdateTodoist", "UpdateYarmtl",
   "DeleteFromTodoist", "DeleteFromYarmtl"}
\* the applied actions of pass p of a type whose application returned Ok
Succeeded(p, type) ==
  {i \in Applied(p) : sync[p].log[i].type = type /\ sync[p].log[i].res = "ok"}

\* C32 (sync report): during and after a pass each of the six counters of
\* the report is the number of applied actions of its kind and direction
\* whose application returned success, so their sum is the number of
\* successful actions; an action that failed adds to no counter and does not
\* make sync return an error.
C32_SyncReport ==
  \A p \in Passes :
    /\ Diffed(p) =>
         /\ \A type \in ActionTypes :
              CounterOf(sync[p].report, type) = Cardinality(Succeeded(p, type))
         /\ sync[p].report.created_in_todoist + sync[p].report.created_in_yarmtl
              + sync[p].report.updated_in_todoist
              + sync[p].report.updated_in_yarmtl
              + sync[p].report.deleted_in_todoist
              + sync[p].report.deleted_in_yarmtl
              = Cardinality({i \in Applied(p) : sync[p].log[i].res = "ok"})
    /\ (\E i \in Applied(p) : sync[p].log[i].res # "ok") =>
         /\ Diffed(p)
         /\ sync[p].result # "Err"
         /\ pc[p] = "done" => sync[p].result = "Ok"

\* a pass returned Ok with a report that counts the action that succeeded
\* and not the one that failed
C32_Witness ==
  \E p \in Passes : \E i, j \in Applied(p) :
    /\ pc[p] = "done" /\ sync[p].result = "Ok"
    /\ sync[p].log[i].res # "ok"
    /\ sync[p].log[j].res = "ok"
    /\ CounterOf(sync[p].report, sync[p].log[j].type) = 1
    /\ CounterOf(sync[p].report, sync[p].log[i].type) = 0

\* ---------------------------------------------------------------- C33
\* C33 (no dangling mappings): in the step that ends a pass all of whose
\* actions succeeded, run with no other pass under way, every entry of the
\* task_mappings written to the metadata file is keyed by the id of a task
\* of the pass's local list, and its todoist_id is the id of a task the
\* service holds.
C33_NoDanglingMappings ==
  [][\A p \in Passes :
       (PersistStep(p) /\ OthersIdle(p) /\ AllOk(sync[p].log)) =>
         \A k \in DOMAIN metadata_file'.task_mappings :
           /\ k \in IdsOf(sync[p].local_tasks)
           /\ metadata_file'.task_mappings[k].todoist_id \in DOMAIN remote']_vars

\* ---------------------------------------------------------------- C34
\* the ids of the tasks the store file holds
StoredIds(file) == IdsOf(load_local_tasks(file, uuid))

\* the local ids whose remote task, made by this program, is held by the
\* service in the closed state (it was closed, and nobody deleted it)
ClosedCounterparts(r) ==
  {Unwrap(extract_yarmtl_metadata(r[i])).id :
     i \in {j \in DOMAIN r : /\ r[j].is_completed = Some(TRUE)
                             /\ IsSome(extract_yarmtl_metadata(r[j]))}}

\* C34 (completing a synced task does not delete it): the step that ends a
\* pass does not take out of the store file a task whose remote task was
\* closed and still exists on the service.
C34_CompletedStays ==
  [][\A p \in Passes : PersistStep(p) =>
       \A id \in ClosedCounterparts(remote) :
         id \in StoredIds(tasks_file) => id \in StoredIds(tasks_file')]_vars

\* ---------------------------------------------------------------- C35
\* C35 (a failed fetch leaves everything unchanged): the step of a pass in
\* which list_projects or list_tasks returns an error, or tasks.md cannot be
\* read, ends the pass with that error: no action is applied, no request
\* changes the service, and neither tasks.md nor the metadata file is
\* written.
C35_FetchFailureInert ==
  [][\A p \in Passes :
       (pc[p] = "new" /\ sync'[p].fetch \in FetchErrors) =>
         /\ pc'[p] = "failed"
         /\ sync'[p].result = "Err"
         /\ sync'[p].log = <<>>
         /\ remote' = remote
         /\ remote_projects' = remote_projects
         /\ tasks_file' = tasks_file
         /\ metadata_file' = metadata_file]_vars

\* a pass over a store with a mapped task, a local change to push and a
\* remote task ended on an error of list_tasks; nothing was touched
C35_Witness ==
  \E p \in Passes :
    /\ pc[p] = "failed" /\ sync[p].fetch = "list_tasks"
    /\ tasks_file # <<>> /\ remote # EmptyMap
    /\ metadata_file.content = "json"
    /\ metadata_file.task_mappings # EmptyMap
    /\ metadata_file.last_sync = 0

\* passes ended on an error of list_projects and of the read of tasks.md
C35_OtherErrorsSeen ==
  \E p \in Passes :
    pc[p] = "failed" /\ sync[p].fetch \in {"list_projects", "load_local_tasks"}

\* ---------------------------------------------------------------- C36
\* the ids of the local tasks the actions pass p applied so far were aimed
\* at: the DeleteFromYarmtl and UpdateYarmtl actions
PullTargets(p) ==
  {sync[p].actions[i].yarmtl_id :
     i \in {j \in Applied(p) : sync[p].actions[j].type = "DeleteFromYarmtl"}}
  \cup {TargetOf(sync[p].actions[i]) :
          i \in {j \in Applied(p) : sync[p].actions[j].type = "UpdateYarmtl"}}

\* the tasks of a list that are no such target, in list order
Untargeted(p, tasks) ==
  LET NotTarget(t) == t.id \notin PullTargets(p)
  IN SelectSeq(tasks, NotTarget)

\* the number of CreateInYarmtl actions pass p applied so far
Pulled(p) ==
  Cardinality({j \in Applied(p) : sync[p].actions[j].type = "CreateInYarmtl"})

\* C36 (untouched local tasks are preserved): during and after a pass the
\* loaded tasks that are the target of no applied DeleteFromYarmtl or
\* UpdateYarmtl action are in the in-memory list with all their fields
\* unchanged and in their loaded order, and what follows them in the list
\* are the tasks the pass created from remote tasks.
C36_UntouchedPreserved ==
  \A p \in Passes : Diffed(p) =>
    LET before == Untargeted(p, sync[p].pre.local_tasks)
        now == Untargeted(p, sync[p].local_tasks)
    IN /\ Len(now) >= Len(before)
       /\ SubSeq(now, 1, Len(before)) = before
       /\ Len(now) - Len(before) <= Pulled(p)
       /\ Len(sync[p].local_tasks) <= Len(sync[p].pre.local_tasks) + Pulled(p)

\* a pass removed or replaced the first task of its list and the task after
\* it is still there, unchanged
C36_Witness ==
  \E p \in Passes :
    /\ pc[p] = "done"
    /\ Len(sync[p].pre.local_tasks) = 2
    /\ sync[p].pre.local_tasks[1].id \in PullTargets(p)
    /\ sync[p].pre.local_tasks[2].id \notin PullTargets(p)
    /\ Untargeted(p, sync[p].local_tasks) = <<sync[p].pre.local_tasks[2]>>

\* a pass appended a task made from a remote task after a task it loaded
C36_AppendSeen ==
  \E p \in Passes :
    /\ pc[p] = "done" /\ Pulled(p) > 0
    /\ sync[p].pre.local_tasks # <<>>
    /\ Len(sync[p].local_tasks) = Len(sync[p].pre.local_tasks) + Pulled(p)
    /\ SubSeq(sync[p].local_tasks, 1, Len(sync[p].pre.local_tasks))
         = sync[p].pre.local_tasks

\* ---------------------------------------------------------------- C37
\* the applications of a CreateInTodoist for local id that returned Ok, as
\* pairs of pass and position
Creations(id) ==
  UNION {{<<p, k>> : k \in {n \in Applied(p) :
                              /\ sync[p].log[n].type = "CreateInTodoist"
                              /\ sync[p].log[n].res = "ok"
                              /\ sync[p].actions[n].task.id = id}} :
         p \in Passes}

\* the remote tasks whose sideband metadata names local id
Counterparts(id) ==
  {i \in DOMAIN remote :
     /\ IsSome(extract_yarmtl_metadata(remote[i]))
     /\ Unwrap(extract_yarmtl_metadata(remote[i])).id = id}

\* C37 (no duplicate remote task per local task): over local saves that each
\* spawn a background pass, a local task is created on the service at most
\* once: the create calls of the passes never leave two remote tasks whose
\* sideband metadata names the same local id.
C37_NoDuplicateRemote ==
  \A id \in {IdA, IdB, IdLong} :
    Cardinality(Creations(id)) <= 1
      \/ Cardinality(Counterparts(id)) <= 1

\* ---------------------------------------------------------------- C38
\* the ids of the tasks pass p added to the list it loaded, and of those it
\* took out of it
WrittenBy(p) == IdsOf(sync[p].local_tasks) \ IdsOf(sync[p].pre.local_tasks)
RemovedBy(p) == IdsOf(sync[p].pre.local_tasks) \ IdsOf(sync[p].local_tasks)

\* the background passes that have returned after writing the store file
Returned ==
  {p \in Passes : /\ pc[p] = "done" /\ sync[p].kind = "spawned"
                  /\ sync[p].tasks_modified}

\* a step of the TUI that saves its list and spawns a pass
TuiSave ==
  \E p \in Passes :
    pc[p] = "idle" /\ pc'[p] = "new" /\ sync'[p].kind = "spawned"

\* C38 (no lost pull): a save of the TUI keeps in the store file every task
\* a returned background pass wrote into it, and writes back no task such a
\* pass removed from it.
C38_NoLostPull ==
  [][TuiSave =>
       \A p \in Returned :
         /\ \A id \in WrittenBy(p) :
              id \in StoredIds(tasks_file) => id \in StoredIds(tasks_file')
         /\ \A id \in RemovedBy(p) :
              id \notin StoredIds(tasks_file)
                => id \notin StoredIds(tasks_file')]_vars

\* ---------------------------------------------------------------- C39
\* the positions, in the log of pass p, of the CreateInTodoist and
\* UpdateTodoist actions whose close or reopen call failed
Swallowed(p) == {k \in Applied(p) : sync[p].log[k].dropped}

\* the positions, in the diff of pass q, of the actions about local task id
\* or about remote task todoist_id
ActionsAbout(q, id, todoist_id) ==
  {j \in 1..Len(sync[q].actions) :
     IF sync[q].actions[j].type \in LocalTypes
     THEN LocalIdOf(sync[q].actions[j]) = id
     ELSE RemoteIdOf(sync[q].actions[j]) = todoist_id}

\* pass q began with the task of the k-th action of pass p as that action
\* left it: the local task and its mapping are those of the action, and the
\* remote task is among the fetched ones
FoundAsLeft(q, p, k) ==
  LET task == sync[p].actions[k].task
  IN /\ pc[p] = "done" /\ Diffed(q) /\ q # p
     /\ \E i \in 1..Len(sync[q].pre.local_tasks) :
          sync[q].pre.local_tasks[i] = task
     /\ task.id \in DOMAIN sync[p].metadata
     /\ task.id \in DOMAIN sync[q].pre.metadata
     /\ sync[q].pre.metadata[task.id] = sync[p].metadata[task.id]
     /\ sync[q].pre.metadata[task.id].todoist_id \in FetchedIds(q)

C39_ReopenSeen ==
  \E p \in Passes : \E k \in Swallowed(p) : \E q \in Passes :
    /\ sync[p].actions[k].type = "UpdateTodoist"
    /\ ~sync[p].actions[k].task.completed
    /\ FoundAsLeft(q, p, k)

====
